---- MODULE Spec2Model ----
(***************************************************************************)
(* Session token subsystem of kyomel/blog-management: the JWT service      *)
(* (internal/utils/jwt.go), the authentication service (services, auth),   *)
(* the user repository and the clock they read.                            *)
(*                                                                         *)
(* Time is counted in whole seconds: jwt.NewNumericDate truncates every    *)
(* instant to the second, and the validator compares the current instant   *)
(* with these whole-second values, so only the second a clock read falls   *)
(* in can be observed.                                                     *)
(***************************************************************************)
EXTENDS Integers, Sequences, FiniteSets, TLC

\* ------------------------------------------------------------------ bounds
MaxTime == 3
MaxDrift == 1
MaxUsers == 1
AccessExpiry == 1
RefreshExpiry == 2
MaxPosts == 2

\* ------------------------------------------------------------- value sets
UserIDs == 1..MaxUsers
Emails == {"e1", "e2"}
Usernames == {"u1", "u2"}
Passwords == {"p1", "p2"}
RoleAdmin == "admin"
RoleUser == "user"
Roles == {RoleAdmin, RoleUser}
Secrets == {"s1", "s2"}
AttackerKey == "kx"

VARIABLES
  now,            \* the second the wall clock is in
  accessSecret,   \* jwtService.accessSecret
  refreshSecret,  \* jwtService.refreshSecret
  users,          \* the rows of table users
  sess,           \* the token pair the caller keeps
  spent,          \* the refresh token the kept pair was obtained with, if any
  last,           \* the last call and what it returned
  posts,          \* the rows of table posts
  post_tags,      \* the rows of table post_tags, <<post_id, tag_id>>
  calls,          \* the Register calls in flight, one per worker
  loggedOut       \* the tokens the caller has sent to /api/auth/logout

vars == <<now, accessSecret, refreshSecret, users, sess, spent, last,
          posts, post_tags, calls, loggedOut>>

\* ------------------------------------------------------------ jwt library
\* Sentinel errors of golang-jwt/v5 that errors.Is can find in a parse error.
ErrTokenMalformed == "jwt.ErrTokenMalformed"
ErrTokenSignatureInvalid == "jwt.ErrTokenSignatureInvalid"
ErrTokenInvalidClaims == "jwt.ErrTokenInvalidClaims"
ErrTokenExpired == "jwt.ErrTokenExpired"
ErrTokenNotValidYet == "jwt.ErrTokenNotValidYet"

\* Errors of package utils.
ErrInvalidToken == "ErrInvalidToken"
ErrExpiredToken == "ErrExpiredToken"
Nil == "nil"

NoToken == [kind |-> "none"]
MalformedToken == [kind |-> "malformed"]
NoPair == [access |-> NoToken, refresh |-> NoToken]
NoUser == [id |-> 0]
NoRequest == [email |-> "", username |-> "", password |-> "", role |-> ""]

\* userID.String() and uuid.Parse
UuidString(id) == <<"uuid", id>>
UuidParse(s) ==
  IF Len(s) = 2 /\ s[1] = "uuid" THEN [ok |-> TRUE, id |-> s[2]]
  ELSE [ok |-> FALSE, id |-> 0]

Issuer == "blog-management-api"

\* json.Marshal of a JWTClaims value, the payload segment of the token: the
\* UUID in its string form under "user_id", the three instants as numbers of
\* seconds.
MarshalClaims(claims) ==
  [user_id |-> UuidString(claims.uid), username |-> claims.username,
   email |-> claims.email, role |-> claims.role, iss |-> claims.iss,
   sub |-> claims.sub, exp |-> claims.exp, iat |-> claims.iat, nbf |-> claims.nbf]

\* The payload segment a token string carries.
PayloadOf(tok) ==
  [user_id |-> tok.user_id, username |-> tok.username, email |-> tok.email,
   role |-> tok.role, iss |-> tok.iss, sub |-> tok.sub, exp |-> tok.exp,
   iat |-> tok.iat, nbf |-> tok.nbf]

\* json.Unmarshal of the payload segment into &JWTClaims{}.
UnmarshalClaims(tok) ==
  [kind |-> "claims", uid |-> UuidParse(tok.user_id).id, username |-> tok.username,
   email |-> tok.email, role |-> tok.role, iss |-> tok.iss, sub |-> tok.sub,
   exp |-> tok.exp, iat |-> tok.iat, nbf |-> tok.nbf]

\* jwt.NewWithClaims(HS256, claims).SignedString(key): the payload, and an
\* HMAC made with key over the payload as encoded (over). pad stands for the
\* two bits of the last base64url character of the signature segment that
\* carry no data; the encoder writes them as 0.
SignedString(claims, key) ==
  LET p == MarshalClaims(claims)
  IN [kind |-> "jwt", key |-> key, user_id |-> p.user_id, username |-> p.username,
      email |-> p.email, role |-> p.role, iss |-> p.iss, sub |-> p.sub,
      exp |-> p.exp, iat |-> p.iat, nbf |-> p.nbf, over |-> p, pad |-> 0]

\* ParseWithClaims accepting a token in the very second of its exp (t > exp
\* as the expiry test).
ParseWithClaims_ExpiryExclusive(tok, secret, t) ==
  IF tok.kind # "jwt" \/ ~UuidParse(tok.user_id).ok
    THEN [err |-> {ErrTokenMalformed}, valid |-> FALSE, claims |-> NoToken]
  ELSE IF tok.key # secret \/ tok.over # PayloadOf(tok)
    THEN [err |-> {ErrTokenSignatureInvalid}, valid |-> FALSE, claims |-> NoToken]
  ELSE LET bad == (IF t > tok.exp THEN {ErrTokenExpired} ELSE {})
                  \cup (IF t < tok.nbf THEN {ErrTokenNotValidYet} ELSE {})
       IN IF bad = {} THEN [err |-> {}, valid |-> TRUE, claims |-> UnmarshalClaims(tok)]
          ELSE [err |-> bad \cup {ErrTokenInvalidClaims}, valid |-> FALSE,
                claims |-> NoToken]

\* jwt.ParseWithClaims(tokenString, &JWTClaims{}, keyfunc returning secret) at
\* instant t: the three segments are split and decoded (base64url, not
\* strict: the bits of pad are dropped) and the payload unmarshalled, then the
\* HMAC of header and payload as received is compared with the signature,
\* then the claims validator runs (exp, nbf). err is the set of sentinel
\* errors the returned error wraps; claims is the value handed back with a
\* nil error.
ParseWithClaims(tok, secret, t) ==
  IF tok.kind # "jwt" \/ ~UuidParse(tok.user_id).ok
    THEN [err |-> {ErrTokenMalformed}, valid |-> FALSE, claims |-> NoToken]
  ELSE IF tok.key # secret \/ tok.over # PayloadOf(tok)
    THEN [err |-> {ErrTokenSignatureInvalid}, valid |-> FALSE, claims |-> NoToken]
  ELSE LET bad == (IF t >= tok.exp THEN {ErrTokenExpired} ELSE {})
                  \cup (IF t < tok.nbf THEN {ErrTokenNotValidYet} ELSE {})
       IN IF bad = {} THEN [err |-> {}, valid |-> TRUE, claims |-> UnmarshalClaims(tok)]
          ELSE [err |-> bad \cup {ErrTokenInvalidClaims}, valid |-> FALSE,
                claims |-> NoToken]

\* The error value a failed parse hands back, as the caller sees it.
RawError(err) ==
  IF ErrTokenMalformed \in err THEN ErrTokenMalformed
  ELSE IF ErrTokenSignatureInvalid \in err THEN ErrTokenSignatureInvalid
  ELSE IF ErrTokenNotValidYet \in err THEN ErrTokenNotValidYet
  ELSE ErrTokenInvalidClaims

\* ----------------------------------------------------------------- clock
Min(a, b) == IF a < b THEN a ELSE b

\* The six time.Now() reads of one GenerateTokenPair call that starts at t.
ClockReads(t) ==
  {c \in [1..6 -> t..Min(t + MaxDrift, MaxTime)] :
     \A i \in 1..5 : c[i] <= c[i + 1]}

\* ------------------------------------------------------------- jwtService
\* The two JWTClaims literals of GenerateTokenPair; clk[1..3] and clk[4..6]
\* are the clock reads for ExpiresAt, IssuedAt and NotBefore, in this order.
AccessClaims(userID, username, email, role, clk) ==
  [kind |-> "claims", uid |-> userID, username |-> username, email |-> email,
   role |-> role, exp |-> clk[1] + AccessExpiry, iat |-> clk[2], nbf |-> clk[3],
   iss |-> Issuer, sub |-> UuidString(userID)]

RefreshClaims(userID, username, email, role, clk) ==
  [kind |-> "claims", uid |-> userID, username |-> username, email |-> email,
   role |-> role, exp |-> clk[4] + RefreshExpiry, iat |-> clk[5], nbf |-> clk[6],
   iss |-> Issuer, sub |-> UuidString(userID)]

\* GenerateTokenPair with the refresh claim set built for the username in
\* place of the email.
GenerateTokenPair_EmailFromUsername(userID, username, email, role, clk) ==
  [access |-> SignedString(AccessClaims(userID, username, email, role, clk),
                           accessSecret),
   refresh |-> SignedString(RefreshClaims(userID, username, username, role, clk),
                            refreshSecret)]

GenerateTokenPair(userID, username, email, role, clk) ==
  [access |-> SignedString(AccessClaims(userID, username, email, role, clk),
                           accessSecret),
   refresh |-> SignedString(RefreshClaims(userID, username, email, role, clk),
                            refreshSecret)]

\* ValidateToken with the expiry test of line 109 dropped: an expired access
\* token goes on to the refresh secret.
ValidateToken_RetryExpired(tokenString, t) ==
  LET first == ParseWithClaims(tokenString, accessSecret, t)
      retry == first.err # {}
      second == ParseWithClaims(tokenString, refreshSecret, t)
      err == IF retry THEN second.err ELSE first.err
  IN IF first.err = {} /\ first.valid
       THEN [err |-> Nil, claims |-> first.claims, triedRefresh |-> FALSE]
     ELSE IF retry /\ second.err = {} /\ second.valid
       THEN [err |-> Nil, claims |-> second.claims, triedRefresh |-> TRUE]
     ELSE IF ErrTokenExpired \in err
       THEN [err |-> ErrExpiredToken, claims |-> NoToken, triedRefresh |-> retry]
     ELSE [err |-> ErrInvalidToken, claims |-> NoToken, triedRefresh |-> retry]

\* ValidateToken keeping the first parse's error (token, err2 := ... in the
\* retry): the final classification never sees the refresh-secret outcome.
ValidateToken_FirstError(tokenString, t) ==
  LET first == ParseWithClaims(tokenString, accessSecret, t)
      retry == first.err # {} /\ ErrTokenExpired \notin first.err
      second == ParseWithClaims(tokenString, refreshSecret, t)
  IN IF first.err = {} /\ first.valid
       THEN [err |-> Nil, claims |-> first.claims, triedRefresh |-> FALSE]
     ELSE IF retry /\ second.err = {} /\ second.valid
       THEN [err |-> Nil, claims |-> second.claims, triedRefresh |-> TRUE]
     ELSE IF ErrTokenExpired \in first.err
       THEN [err |-> ErrExpiredToken, claims |-> NoToken, triedRefresh |-> retry]
     ELSE [err |-> ErrInvalidToken, claims |-> NoToken, triedRefresh |-> retry]

\* ValidateToken without the retry of lines 109-119: access secret only.
ValidateToken_AccessOnly(tokenString, t) ==
  LET first == ParseWithClaims(tokenString, accessSecret, t)
  IN IF first.err = {} /\ first.valid
       THEN [err |-> Nil, claims |-> first.claims, triedRefresh |-> FALSE]
     ELSE IF ErrTokenExpired \in first.err
       THEN [err |-> ErrExpiredToken, claims |-> NoToken, triedRefresh |-> FALSE]
     ELSE [err |-> ErrInvalidToken, claims |-> NoToken, triedRefresh |-> FALSE]

ValidateToken(tokenString, t) ==
  LET first == ParseWithClaims(tokenString, accessSecret, t)
      retry == first.err # {} /\ ErrTokenExpired \notin first.err
      second == ParseWithClaims(tokenString, refreshSecret, t)
      err == IF retry THEN second.err ELSE first.err
  IN IF first.err = {} /\ first.valid
       THEN [err |-> Nil, claims |-> first.claims, triedRefresh |-> FALSE]
     ELSE IF retry /\ second.err = {} /\ second.valid
       THEN [err |-> Nil, claims |-> second.claims, triedRefresh |-> TRUE]
     ELSE IF ErrTokenExpired \in err
       THEN [err |-> ErrExpiredToken, claims |-> NoToken, triedRefresh |-> retry]
     ELSE [err |-> ErrInvalidToken, claims |-> NoToken, triedRefresh |-> retry]

\* RefreshTokens with the keyfunc of ValidateToken's first parse: it checks the
\* token against the access secret.
RefreshTokens_AccessKey(refreshToken, t, clk) ==
  LET parsed == ParseWithClaims(refreshToken, accessSecret, t)
  IN IF parsed.err # {}
       THEN IF ErrTokenExpired \in parsed.err
              THEN [err |-> ErrExpiredToken, pair |-> NoPair]
              ELSE [err |-> RawError(parsed.err), pair |-> NoPair]
     ELSE IF ~parsed.valid
       THEN [err |-> ErrInvalidToken, pair |-> NoPair]
     ELSE [err |-> Nil,
           pair |-> GenerateTokenPair(parsed.claims.uid, parsed.claims.username,
                                      parsed.claims.email, parsed.claims.role, clk)]

RefreshTokens(refreshToken, t, clk) ==
  LET parsed == ParseWithClaims(refreshToken, refreshSecret, t)
  IN IF parsed.err # {}
       THEN IF ErrTokenExpired \in parsed.err
              THEN [err |-> ErrExpiredToken, pair |-> NoPair]
              ELSE [err |-> RawError(parsed.err), pair |-> NoPair]
     ELSE IF ~parsed.valid
       THEN [err |-> ErrInvalidToken, pair |-> NoPair]
     ELSE [err |-> Nil,
           pair |-> GenerateTokenPair(parsed.claims.uid, parsed.claims.username,
                                      parsed.claims.email, parsed.claims.role, clk)]

\* ------------------------------------------------------ password hashing
\* utils.HashPassword and utils.VerifyPassword: a digest verifies exactly the
\* plaintext it was made from.
HashPassword(password) == <<"digest", password>>
VerifyPassword(hash, password) == hash = HashPassword(password)

\* --------------------------------------------------------- userRepository
ErrUserNotFound == "ErrUserNotFound"
ErrEmailAlreadyExists == "ErrEmailAlreadyExists"
ErrUsernameAlreadyExists == "ErrUsernameAlreadyExists"
ErrUniqueViolation == "pq: duplicate key value violates unique constraint"

\* uuid.New(): an id no row has.
FreeIDs(tbl) == UserIDs \ {u.id : u \in tbl}
NewID(tbl) == CHOOSE i \in FreeIDs(tbl) : \A j \in FreeIDs(tbl) : i <= j

\* Create with its two COUNT(*) queries in the other order: username first.
Create_UsernameFirst(tbl, user) ==
  IF \E u \in tbl : u.username = user.username
    THEN [err |-> ErrUsernameAlreadyExists, users |-> tbl, user |-> user]
  ELSE IF \E u \in tbl : u.email = user.email
    THEN [err |-> ErrEmailAlreadyExists, users |-> tbl, user |-> user]
  ELSE LET row == [user EXCEPT !.id = NewID(tbl)]
       IN [err |-> Nil, users |-> tbl \cup {row}, user |-> row]

\* userRepository.Create: the two COUNT(*) queries see every row, deleted or
\* not; then the INSERT.
Create(tbl, user) ==
  IF \E u \in tbl : u.email = user.email
    THEN [err |-> ErrEmailAlreadyExists, users |-> tbl, user |-> user]
  ELSE IF \E u \in tbl : u.username = user.username
    THEN [err |-> ErrUsernameAlreadyExists, users |-> tbl, user |-> user]
  ELSE LET row == [user EXCEPT !.id = NewID(tbl)]
       IN [err |-> Nil, users |-> tbl \cup {row}, user |-> row]

\* findOneByQuery with "... AND deleted_at IS NULL": the row, or ErrUserNotFound
\* (NoUser here).
FindOne(rows) == IF rows = {} THEN NoUser ELSE CHOOSE u \in rows : TRUE
FindByID(tbl, id) == FindOne({u \in tbl : u.id = id /\ ~u.deleted})
FindByEmail(tbl, email) == FindOne({u \in tbl : u.email = email /\ ~u.deleted})

\* userRepository.Update: the row must be found; the UPDATE writes the fields
\* and fails on the unique index of username.
Update(tbl, user) ==
  IF FindByID(tbl, user.id) = NoUser THEN [err |-> ErrUserNotFound, users |-> tbl]
  ELSE IF \E u \in tbl : u.id # user.id /\ u.username = user.username
    THEN [err |-> ErrUniqueViolation, users |-> tbl]
  ELSE [err |-> Nil, users |-> {u \in tbl : u.id # user.id} \cup {user}]

\* userRepository.Delete: sets deleted_at on a row not yet deleted.
Delete(tbl, id) ==
  IF FindByID(tbl, id) = NoUser THEN [err |-> ErrUserNotFound, users |-> tbl]
  ELSE [err |-> Nil,
        users |-> {IF u.id = id THEN [u EXCEPT !.deleted = TRUE] ELSE u : u \in tbl}]

\* ------------------------------------------------------------ authService
ErrInvalidCredentials == "ErrInvalidCredentials"
ErrUserNotActive == "ErrUserNotActive"
ErrUuidParse == "uuid: invalid UUID"

\* models.UserResponse of a row.
UserResponse(u) ==
  [id |-> u.id, email |-> u.email, username |-> u.username, role |-> u.role,
   is_active |-> u.is_active]

\* Register storing the role of the request (Role: models.UserRole(req.Role)).
Register_RequestRole(tbl, req, clk) ==
  LET user == [id |-> 0, email |-> req.email, username |-> req.username,
               password_hash |-> HashPassword(req.password), role |-> req.role,
               is_active |-> TRUE, deleted |-> FALSE]
      c == Create(tbl, user)
  IN IF c.err # Nil
       THEN [err |-> c.err, users |-> c.users, pair |-> NoPair, user |-> NoUser]
     ELSE [err |-> Nil, users |-> c.users,
           pair |-> GenerateTokenPair(c.user.id, c.user.username, c.user.email,
                                      c.user.role, clk),
           user |-> UserResponse(c.user)]

\* authService.Register: req.Role is not read.
Register(tbl, req, clk) ==
  LET user == [id |-> 0, email |-> req.email, username |-> req.username,
               password_hash |-> HashPassword(req.password), role |-> RoleUser,
               is_active |-> TRUE, deleted |-> FALSE]
      c == Create(tbl, user)
  IN IF c.err # Nil
       THEN [err |-> c.err, users |-> c.users, pair |-> NoPair, user |-> NoUser]
     ELSE [err |-> Nil, users |-> c.users,
           pair |-> GenerateTokenPair(c.user.id, c.user.username, c.user.email,
                                      c.user.role, clk),
           user |-> UserResponse(c.user)]

\* Login with the two checks of lines 103-112 in the other order: the
\* password first, then is_active.
Login_PasswordFirst(tbl, req, clk) ==
  LET user == FindByEmail(tbl, req.email)
  IN IF user = NoUser THEN [err |-> ErrInvalidCredentials, pair |-> NoPair, user |-> NoUser]
     ELSE IF ~VerifyPassword(user.password_hash, req.password)
       THEN [err |-> ErrInvalidCredentials, pair |-> NoPair, user |-> NoUser]
     ELSE IF ~user.is_active
       THEN [err |-> ErrUserNotActive, pair |-> NoPair, user |-> NoUser]
     ELSE [err |-> Nil,
           pair |-> GenerateTokenPair(user.id, user.username, user.email, user.role, clk),
           user |-> UserResponse(user)]

\* Login without the errors.Is(err, ErrUserNotFound) mapping of lines 97-99:
\* the repository's error is returned as it is.
Login_NotFoundPassthrough(tbl, req, clk) ==
  LET user == FindByEmail(tbl, req.email)
  IN IF user = NoUser THEN [err |-> ErrUserNotFound, pair |-> NoPair, user |-> NoUser]
     ELSE IF ~user.is_active
       THEN [err |-> ErrUserNotActive, pair |-> NoPair, user |-> NoUser]
     ELSE IF ~VerifyPassword(user.password_hash, req.password)
       THEN [err |-> ErrInvalidCredentials, pair |-> NoPair, user |-> NoUser]
     ELSE [err |-> Nil,
           pair |-> GenerateTokenPair(user.id, user.username, user.email, user.role, clk),
           user |-> UserResponse(user)]

\* authService.Login
Login(tbl, req, clk) ==
  LET user == FindByEmail(tbl, req.email)
  IN IF user = NoUser THEN [err |-> ErrInvalidCredentials, pair |-> NoPair, user |-> NoUser]
     ELSE IF ~user.is_active
       THEN [err |-> ErrUserNotActive, pair |-> NoPair, user |-> NoUser]
     ELSE IF ~VerifyPassword(user.password_hash, req.password)
       THEN [err |-> ErrInvalidCredentials, pair |-> NoPair, user |-> NoUser]
     ELSE [err |-> Nil,
           pair |-> GenerateTokenPair(user.id, user.username, user.email, user.role, clk),
           user |-> UserResponse(user)]

\* RefreshToken issuing the new pair from the row it has just fetched
\* (GenerateTokenPair(user.ID, ...) as in Login) instead of RefreshTokens.
RefreshToken_FromDirectory(tbl, refreshToken, t, t2, clk) ==
  LET v == ValidateToken(refreshToken, t)
      id == UuidParse(v.claims.sub)
      user == FindByID(tbl, id.id)
      r == RefreshTokens(refreshToken, t2, clk)
  IN IF v.err # Nil
       THEN [err |-> v.err, pair |-> NoPair, user |-> NoUser, dir |-> FALSE]
     ELSE IF ~id.ok
       THEN [err |-> ErrUuidParse, pair |-> NoPair, user |-> NoUser, dir |-> FALSE]
     ELSE IF user = NoUser
       THEN [err |-> ErrUserNotFound, pair |-> NoPair, user |-> NoUser, dir |-> TRUE]
     ELSE IF ~user.is_active
       THEN [err |-> ErrUserNotActive, pair |-> NoPair, user |-> NoUser, dir |-> TRUE]
     ELSE IF r.err # Nil
       THEN [err |-> r.err, pair |-> NoPair, user |-> NoUser, dir |-> TRUE]
     ELSE [err |-> Nil,
           pair |-> GenerateTokenPair(user.id, user.username, user.email, user.role, clk),
           user |-> UserResponse(user), dir |-> TRUE]

\* RefreshToken without the is_active test of lines 157-159.
RefreshToken_NoActiveCheck(tbl, refreshToken, t, t2, clk) ==
  LET v == ValidateToken(refreshToken, t)
      id == UuidParse(v.claims.sub)
      user == FindByID(tbl, id.id)
      r == RefreshTokens(refreshToken, t2, clk)
  IN IF v.err # Nil
       THEN [err |-> v.err, pair |-> NoPair, user |-> NoUser, dir |-> FALSE]
     ELSE IF ~id.ok
       THEN [err |-> ErrUuidParse, pair |-> NoPair, user |-> NoUser, dir |-> FALSE]
     ELSE IF user = NoUser
       THEN [err |-> ErrUserNotFound, pair |-> NoPair, user |-> NoUser, dir |-> TRUE]
     ELSE IF r.err # Nil
       THEN [err |-> r.err, pair |-> NoPair, user |-> NoUser, dir |-> TRUE]
     ELSE [err |-> Nil, pair |-> r.pair, user |-> UserResponse(user), dir |-> TRUE]

\* RefreshToken in the order "RefreshTokens first, the directory afterwards",
\* without the ValidateToken call of line 142: the subject is read from the
\* presented token once RefreshTokens has accepted it.
RefreshToken_RefresherFirst(tbl, refreshToken, t, t2, clk) ==
  LET r == RefreshTokens(refreshToken, t, clk)
      id == UuidParse(refreshToken.sub)
      user == FindByID(tbl, id.id)
  IN IF r.err # Nil
       THEN [err |-> r.err, pair |-> NoPair, user |-> NoUser, dir |-> FALSE]
     ELSE IF ~id.ok
       THEN [err |-> ErrUuidParse, pair |-> NoPair, user |-> NoUser, dir |-> FALSE]
     ELSE IF user = NoUser
       THEN [err |-> ErrUserNotFound, pair |-> NoPair, user |-> NoUser, dir |-> TRUE]
     ELSE IF ~user.is_active
       THEN [err |-> ErrUserNotActive, pair |-> NoPair, user |-> NoUser, dir |-> TRUE]
     ELSE [err |-> Nil, pair |-> r.pair, user |-> UserResponse(user), dir |-> TRUE]

\* authService.RefreshToken: ValidateToken at instant t, the directory, then
\* RefreshTokens at instant t2 >= t. dir is TRUE when FindByID was called.
RefreshToken(tbl, refreshToken, t, t2, clk) ==
  LET v == ValidateToken(refreshToken, t)
      id == UuidParse(v.claims.sub)
      user == FindByID(tbl, id.id)
      r == RefreshTokens(refreshToken, t2, clk)
  IN IF v.err # Nil
       THEN [err |-> v.err, pair |-> NoPair, user |-> NoUser, dir |-> FALSE]
     ELSE IF ~id.ok
       THEN [err |-> ErrUuidParse, pair |-> NoPair, user |-> NoUser, dir |-> FALSE]
     ELSE IF user = NoUser
       THEN [err |-> ErrUserNotFound, pair |-> NoPair, user |-> NoUser, dir |-> TRUE]
     ELSE IF ~user.is_active
       THEN [err |-> ErrUserNotActive, pair |-> NoPair, user |-> NoUser, dir |-> TRUE]
     ELSE IF r.err # Nil
       THEN [err |-> r.err, pair |-> NoPair, user |-> NoUser, dir |-> TRUE]
     ELSE [err |-> Nil, pair |-> r.pair, user |-> UserResponse(user), dir |-> TRUE]

\* ---------------------------------------------------------- middleware
StatusUnauthorized == 401
StatusForbidden == 403

\* An Authorization header: absent, of another scheme, or "Bearer " + token
\* (strings.TrimPrefix gives the token back; it may be empty).
EmptyToken == [kind |-> "empty"]
NoHeader == [kind |-> "absent"]
OtherHeader == [kind |-> "basic"]
Bearer(tok) == [kind |-> "bearer", token |-> tok]

\* Authenticate looking the subject up in the directory after the verifier
\* has accepted the token, and answering 401 for a missing or inactive row.
Authenticate_DirectoryCheck(authHeader, t) ==
  IF authHeader.kind = "absent"
    THEN [status |-> StatusUnauthorized, error |-> "Authorization header is required",
          claims |-> NoToken, verified |-> FALSE]
  ELSE IF authHeader.kind # "bearer"
    THEN [status |-> StatusUnauthorized, error |-> "Invalid authorization format",
          claims |-> NoToken, verified |-> FALSE]
  ELSE IF authHeader.token = EmptyToken
    THEN [status |-> StatusUnauthorized, error |-> "Token is required",
          claims |-> NoToken, verified |-> FALSE]
  ELSE LET r == ValidateToken(authHeader.token, t)
           row == FindByID(users, r.claims.uid)
       IN IF r.err # Nil
            THEN IF r.err = ErrExpiredToken
                   THEN [status |-> StatusUnauthorized, error |-> "Token has expired",
                         claims |-> NoToken, verified |-> TRUE]
                   ELSE [status |-> StatusUnauthorized, error |-> "Invalid token",
                         claims |-> NoToken, verified |-> TRUE]
          ELSE IF row = NoUser \/ ~row.is_active
            THEN [status |-> StatusUnauthorized, error |-> "Invalid token",
                  claims |-> NoToken, verified |-> TRUE]
          ELSE [status |-> 0, error |-> Nil, claims |-> r.claims, verified |-> TRUE]

\* Authenticate without the tokenString == "" test of lines 204-208: the
\* empty string goes to the verifier.
Authenticate_NoEmptyCheck(authHeader, t) ==
  IF authHeader.kind = "absent"
    THEN [status |-> StatusUnauthorized, error |-> "Authorization header is required",
          claims |-> NoToken, verified |-> FALSE]
  ELSE IF authHeader.kind # "bearer"
    THEN [status |-> StatusUnauthorized, error |-> "Invalid authorization format",
          claims |-> NoToken, verified |-> FALSE]
  ELSE LET r == ValidateToken(authHeader.token, t)
       IN IF r.err # Nil
            THEN IF r.err = ErrExpiredToken
                   THEN [status |-> StatusUnauthorized, error |-> "Token has expired",
                         claims |-> NoToken, verified |-> TRUE]
                   ELSE [status |-> StatusUnauthorized, error |-> "Invalid token",
                         claims |-> NoToken, verified |-> TRUE]
          ELSE [status |-> 0, error |-> Nil, claims |-> r.claims, verified |-> TRUE]

\* AuthMiddleware.Authenticate: status 0 stands for c.Next() (no response
\* written by this stage), claims for what c.Set(UserContextKey, ...) stored.
Authenticate(authHeader, t) ==
  IF authHeader.kind = "absent"
    THEN [status |-> StatusUnauthorized, error |-> "Authorization header is required",
          claims |-> NoToken, verified |-> FALSE]
  ELSE IF authHeader.kind # "bearer"
    THEN [status |-> StatusUnauthorized, error |-> "Invalid authorization format",
          claims |-> NoToken, verified |-> FALSE]
  ELSE IF authHeader.token = EmptyToken
    THEN [status |-> StatusUnauthorized, error |-> "Token is required",
          claims |-> NoToken, verified |-> FALSE]
  ELSE LET r == ValidateToken(authHeader.token, t)
       IN IF r.err # Nil
            THEN IF r.err = ErrExpiredToken
                   THEN [status |-> StatusUnauthorized, error |-> "Token has expired",
                         claims |-> NoToken, verified |-> TRUE]
                   ELSE [status |-> StatusUnauthorized, error |-> "Invalid token",
                         claims |-> NoToken, verified |-> TRUE]
          ELSE [status |-> 0, error |-> Nil, claims |-> r.claims, verified |-> TRUE]

\* RequireRole calling c.Next() when the context key is not set.
RequireRole_NoContextPass(roles, ctx) ==
  IF ctx = NoToken
    THEN [status |-> 0, error |-> Nil]
  ELSE IF ctx.kind # "claims"
    THEN [status |-> StatusUnauthorized, error |-> "Invalid user claims"]
  ELSE IF ctx.role \notin roles
    THEN [status |-> StatusForbidden, error |-> "Forbidden: insufficient permissions"]
  ELSE [status |-> 0, error |-> Nil]

\* RequireRole letting an admin through whatever roles the route names.
RequireRole_AdminAlways(roles, ctx) ==
  IF ctx = NoToken
    THEN [status |-> StatusUnauthorized, error |-> "Unauthorized"]
  ELSE IF ctx.kind # "claims"
    THEN [status |-> StatusUnauthorized, error |-> "Invalid user claims"]
  ELSE IF ctx.role \notin roles \cup {RoleAdmin}
    THEN [status |-> StatusForbidden, error |-> "Forbidden: insufficient permissions"]
  ELSE [status |-> 0, error |-> Nil]

\* AuthMiddleware.RequireRole(roles...): ctx is the value c.Get(UserContextKey)
\* finds (NoToken when the key is not set); status 0 stands for c.Next().
RequireRole(roles, ctx) ==
  IF ctx = NoToken
    THEN [status |-> StatusUnauthorized, error |-> "Unauthorized"]
  ELSE IF ctx.kind # "claims"
    THEN [status |-> StatusUnauthorized, error |-> "Invalid user claims"]
  ELSE IF ctx.role \notin roles
    THEN [status |-> StatusForbidden, error |-> "Forbidden: insufficient permissions"]
  ELSE [status |-> 0, error |-> Nil]

\* The chain with the RequireRole stage left out.
Gate_NoRoleStage(authHeader, t, roles) ==
  LET a == Authenticate(authHeader, t)
  IN IF a.status # 0
       THEN [status |-> a.status, error |-> a.error, claims |-> NoToken,
             verified |-> a.verified, passed |-> FALSE]
     ELSE [status |-> 0, error |-> Nil, claims |-> a.claims,
           verified |-> a.verified, passed |-> TRUE]

\* The middleware chain of a route group: api.Use(Authenticate()), then
\* admin.Use(RequireRole(roles...)); a stage that aborts ends the chain.
Gate(authHeader, t, roles) ==
  LET a == Authenticate(authHeader, t)
      r == RequireRole(roles, a.claims)
  IN IF a.status # 0
       THEN [status |-> a.status, error |-> a.error, claims |-> NoToken,
             verified |-> a.verified, passed |-> FALSE]
     ELSE IF r.status # 0
       THEN [status |-> r.status, error |-> r.error, claims |-> a.claims,
             verified |-> a.verified, passed |-> FALSE]
     ELSE [status |-> 0, error |-> Nil, claims |-> a.claims,
           verified |-> a.verified, passed |-> TRUE]

\* The handlers registered under /api/admin.
AdminHandlers ==
  {"CreateCategory", "UpdateCategory", "DeleteCategory",
   "CreatePost", "UpdatePost", "DeletePost", "PublishPost",
   "CreateTag", "UpdateTag", "DeleteTag", "AdminDashboard"}

\* ------------------------------------------------------------ AuthHandler
StatusOK == 200
StatusBadRequest == 400
StatusInternalServerError == 500

\* AuthHandler.Login: the response written for a bound JSON body.
AuthHandlerLogin(tbl, req, clk) ==
  IF req.email = "" \/ req.password = ""
    THEN [status |-> StatusBadRequest, msg |-> "Email and password are required",
          err |-> Nil, pair |-> NoPair, user |-> NoUser]
  ELSE LET r == Login(tbl, req, clk)
       IN IF r.err = ErrInvalidCredentials
            THEN [status |-> StatusUnauthorized, msg |-> "Invalid credentials",
                  err |-> r.err, pair |-> NoPair, user |-> NoUser]
          ELSE IF r.err = ErrUserNotActive
            THEN [status |-> StatusForbidden, msg |-> "User account is not active",
                  err |-> r.err, pair |-> NoPair, user |-> NoUser]
          ELSE IF r.err # Nil
            THEN [status |-> StatusInternalServerError, msg |-> <<"Failed to login: ", r.err>>,
                  err |-> r.err, pair |-> NoPair, user |-> NoUser]
          ELSE [status |-> StatusOK, msg |-> "", err |-> Nil, pair |-> r.pair,
                user |-> r.user]

\* Logout behind the verifier: the token of the request is validated first and
\* a request without an accepted token is answered 401.
AuthHandlerLogout_Validating(authHeader) ==
  LET a == Authenticate(authHeader, now)
  IN IF a.status # 0
       THEN [status |-> a.status, msg |-> a.error, verified |-> a.verified]
       ELSE [status |-> StatusOK, msg |-> "Successfully logged out",
             verified |-> a.verified]

\* AuthHandler.Logout, registered on group /api/auth with no middleware: it
\* reads nothing of the request and writes one fixed response.
AuthHandlerLogout(authHeader) ==
  [status |-> StatusOK, msg |-> "Successfully logged out", verified |-> FALSE]

\* ------------------------------------------------------------ table posts
\* A row of posts has id, slug, status, published_at (Null or Ptr of an
\* instant) and deleted (deleted_at IS NOT NULL). Left out are author and
\* category, which every row has by the foreign keys and which the JOINs of
\* the queries always find, and the columns the service copies from the
\* request as it does slug (title, content, excerpt, is_featured, ...). Ids
\* are handed out in the order of creation, so that created_at DESC is id
\* DESC.
PostIDs == 1..MaxPosts
Slugs == {"a", "b"}
TagIDs == {1, 2}
StatusDraft == "draft"
StatusPublished == "published"
StatusArchived == "archived"
PostStatuses == {StatusDraft, StatusPublished, StatusArchived}

\* A pointer field (*time.Time): nil, or the value it points to.
Null == <<>>
Ptr(v) == <<v>>

\* A nil *models.Post or *models.PostResponse.
NoPost == [id |-> 0]

\* fmt.Errorf("post not found") of the repository: another error value than
\* services.ErrPostNotFound.
ErrRepoPostNotFound == "repositories: post not found"
ErrNilDereference == "runtime error: invalid memory address or nil pointer dereference"

\* gen_random_uuid(): an id no row has.
FreePostIDs(tbl) == PostIDs \ {p.id : p \in tbl}
NewPostID(tbl) == CHOOSE i \in FreePostIDs(tbl) : \A j \in FreePostIDs(tbl) : i <= j

\* PostRepository.getPostTags
getPostTags(tags, postID) == {pt[2] : pt \in {x \in tags : x[1] = postID}}

\* The *models.Post scanned from a row, with its Tags.
ScanPost(tags, rows) ==
  IF rows = {} THEN NoPost
  ELSE LET p == CHOOSE r \in rows : TRUE
       IN [id |-> p.id, slug |-> p.slug, status |-> p.status,
           published_at |-> p.published_at, tags |-> getPostTags(tags, p.id)]

\* PostRepository.GetByID and GetBySlug: sql.ErrNoRows is turned into
\* (nil, nil), so the result is a post or NoPost and the error is nil.
PostRepositoryGetByID(tbl, tags, id) ==
  ScanPost(tags, {p \in tbl : p.id = id /\ ~p.deleted})
PostRepositoryGetBySlug(tbl, tags, slug) ==
  ScanPost(tags, {p \in tbl : p.slug = slug /\ ~p.deleted})

\* PostRepository.Create: one transaction; the INSERT fails on the unique
\* index of slug, which covers deleted rows too.
PostRepositoryCreate(tbl, tags, post, tagIDs) ==
  IF \E p \in tbl : p.slug = post.slug
    THEN [err |-> ErrUniqueViolation, posts |-> tbl, post_tags |-> tags, id |-> 0]
  ELSE LET id == NewPostID(tbl)
       IN [err |-> Nil,
           posts |-> tbl \cup {[id |-> id, slug |-> post.slug, status |-> post.status,
                                published_at |-> post.published_at,
                                deleted |-> FALSE]},
           post_tags |-> tags \cup {<<id, t>> : t \in tagIDs},
           id |-> id]

\* PostRepository.Update: one transaction. The UPDATE writes category_id,
\* title, slug, content, excerpt, featured_image_url, status, is_featured,
\* metadata and updated_at (published_at is not in its SET list); then every
\* post_tags row of the post is deleted and one is inserted per tagIDs entry.
PostRepositoryUpdate(tbl, tags, post, tagIDs) ==
  IF ~\E p \in tbl : p.id = post.id /\ ~p.deleted
    THEN [err |-> ErrRepoPostNotFound, posts |-> tbl, post_tags |-> tags]
  ELSE IF \E p \in tbl : p.id # post.id /\ p.slug = post.slug
    THEN [err |-> ErrUniqueViolation, posts |-> tbl, post_tags |-> tags]
  ELSE [err |-> Nil,
        posts |-> {IF p.id = post.id
                     THEN [p EXCEPT !.slug = post.slug, !.status = post.status]
                     ELSE p : p \in tbl},
        post_tags |-> {x \in tags : x[1] # post.id} \cup {<<post.id, t>> : t \in tagIDs}]

\* PostRepository.Delete
PostRepositoryDelete(tbl, id) ==
  IF ~\E p \in tbl : p.id = id /\ ~p.deleted
    THEN [err |-> ErrRepoPostNotFound, posts |-> tbl]
  ELSE [err |-> Nil,
        posts |-> {IF p.id = id THEN [p EXCEPT !.deleted = TRUE] ELSE p : p \in tbl}]

\* ORDER BY p.created_at DESC over a set of ids.
RECURSIVE OrderDesc(_)
OrderDesc(ids) ==
  IF ids = {} THEN <<>>
  ELSE LET m == CHOOSE i \in ids : \A j \in ids : j <= i
       IN <<m>> \o OrderDesc(ids \ {m})

\* PostRepository.GetAll: the WHERE clause built from the filter, the COUNT,
\* and the page cut by LIMIT and OFFSET.
PostRepositoryGetAll(tbl, tags, filter) ==
  LET match == {p \in tbl : /\ ~p.deleted
                            /\ filter.status # "" => p.status = filter.status}
      ordered == OrderDesc({p.id : p \in match})
      page == SubSeq(ordered, filter.offset + 1,
                     Min(filter.offset + filter.limit, Len(ordered)))
  IN [posts |-> [i \in 1..Len(page) |->
                   ScanPost(tags, {p \in tbl : p.id = page[i]})],
      total |-> Cardinality(match)]

\* ------------------------------------------------------------ postService
ErrPostNotFound == "ErrPostNotFound"
ErrPostSlugConflict == "ErrPostSlugConflict"

\* The result of a call that dereferenced a nil *models.Post: the goroutine
\* panics before any write.
NilPanic(tbl, tags) ==
  [err |-> ErrNilDereference, posts |-> tbl, post_tags |-> tags, post |-> NoPost]

\* postService.Create at instant t.
PostServiceCreate(tbl, tags, req, t) ==
  LET existingPost == PostRepositoryGetBySlug(tbl, tags, req.slug)
      post == [id |-> 0, slug |-> req.slug, status |-> req.status,
               published_at |-> IF req.status = StatusPublished THEN Ptr(t) ELSE Null]
      c == PostRepositoryCreate(tbl, tags, post, req.tag_ids)
  IN IF existingPost # NoPost
       THEN [err |-> ErrPostSlugConflict, posts |-> tbl, post_tags |-> tags,
             post |-> NoPost]
     ELSE IF c.err # Nil
       THEN [err |-> c.err, posts |-> tbl, post_tags |-> tags, post |-> NoPost]
     ELSE [err |-> Nil, posts |-> c.posts, post_tags |-> c.post_tags,
           post |-> PostRepositoryGetByID(c.posts, c.post_tags, c.id)]

\* postService.GetByID: the errors.Is(err, sql.ErrNoRows) branch is never
\* taken, the repository having returned (nil, nil); mapPostToResponse(nil)
\* is nil.
PostServiceGetByID(tbl, tags, id) ==
  [err |-> Nil, posts |-> tbl, post_tags |-> tags,
   post |-> PostRepositoryGetByID(tbl, tags, id)]

\* Update without the slug check of lines 358-367: the new slug goes to the
\* UPDATE statement unchecked.
PostServiceUpdate_NoSlugCheck(tbl, tags, id, req, t) ==
  LET post == PostRepositoryGetByID(tbl, tags, id)
      changed ==
        [post EXCEPT
           !.slug = IF req.slug # "" THEN req.slug ELSE @,
           !.status = IF req.status # "" THEN req.status ELSE @,
           !.published_at =
              IF req.status = StatusPublished /\ @ = Null THEN Ptr(t) ELSE @]
      u == PostRepositoryUpdate(tbl, tags, changed, req.tag_ids)
  IN IF post = NoPost THEN NilPanic(tbl, tags)
     ELSE IF u.err # Nil
       THEN [err |-> u.err, posts |-> tbl, post_tags |-> tags, post |-> NoPost]
     ELSE [err |-> Nil, posts |-> u.posts, post_tags |-> u.post_tags,
           post |-> PostRepositoryGetByID(u.posts, u.post_tags, id)]

\* postService.Update at instant t: req.slug "" and req.status "" are fields
\* the request does not carry; req.tag_ids is empty when the request carries
\* no tag_ids.
PostServiceUpdate(tbl, tags, id, req, t) ==
  LET post == PostRepositoryGetByID(tbl, tags, id)
      existingPost == PostRepositoryGetBySlug(tbl, tags, req.slug)
      changed ==
        [post EXCEPT
           !.slug = IF req.slug # "" THEN req.slug ELSE @,
           !.status = IF req.status # "" THEN req.status ELSE @,
           !.published_at =
              IF req.status = StatusPublished /\ @ = Null THEN Ptr(t) ELSE @]
      u == PostRepositoryUpdate(tbl, tags, changed, req.tag_ids)
  IN IF post = NoPost THEN NilPanic(tbl, tags)
     ELSE IF /\ req.slug # "" /\ req.slug # post.slug
             /\ existingPost # NoPost /\ existingPost.id # id
       THEN [err |-> ErrPostSlugConflict, posts |-> tbl, post_tags |-> tags,
             post |-> NoPost]
     ELSE IF u.err # Nil
       THEN [err |-> u.err, posts |-> tbl, post_tags |-> tags, post |-> NoPost]
     ELSE [err |-> Nil, posts |-> u.posts, post_tags |-> u.post_tags,
           post |-> PostRepositoryGetByID(u.posts, u.post_tags, id)]

\* postService.Delete
PostServiceDelete(tbl, tags, id) ==
  LET post == PostRepositoryGetByID(tbl, tags, id)
      d == PostRepositoryDelete(tbl, post.id)
  IN IF post = NoPost THEN NilPanic(tbl, tags)
     ELSE [err |-> d.err, posts |-> d.posts, post_tags |-> tags, post |-> NoPost]

\* postService.Publish at instant t: status and PublishedAt are set on the
\* struct, which goes to PostRepository.Update with nil tagIDs.
PostServicePublish(tbl, tags, id, t) ==
  LET post == PostRepositoryGetByID(tbl, tags, id)
      changed == [post EXCEPT !.status = StatusPublished, !.published_at = Ptr(t)]
      u == PostRepositoryUpdate(tbl, tags, changed, {})
  IN IF post = NoPost THEN NilPanic(tbl, tags)
     ELSE IF u.err # Nil
       THEN [err |-> u.err, posts |-> tbl, post_tags |-> tags, post |-> NoPost]
     ELSE [err |-> Nil, posts |-> u.posts, post_tags |-> u.post_tags,
           post |-> PostRepositoryGetByID(u.posts, u.post_tags, id)]

\* postService.GetAll
PostServiceGetAll(tbl, tags, filter, page, pageSize) ==
  LET pg == IF page < 1 THEN 1 ELSE page
      size == IF pageSize < 1 THEN 10 ELSE pageSize
      r == PostRepositoryGetAll(tbl, tags,
             [filter EXCEPT !.limit = size, !.offset = (pg - 1) * size])
  IN [posts |-> r.posts, total |-> r.total, page |-> pg, page_size |-> size]

\* ------------------------------------------------------------ PostHandler
StatusCreated == 201
StatusNoContent == 204
StatusNotFound == 404
StatusConflict == 409

\* What a handler answers for an error of the service; a panic is caught by
\* the Recovery middleware of gin.Default(), which answers 500.
PostErrorStatus(err, known) ==
  IF err = ErrPostNotFound /\ ErrPostNotFound \in known THEN StatusNotFound
  ELSE IF err = ErrPostSlugConflict /\ ErrPostSlugConflict \in known THEN StatusConflict
  ELSE StatusInternalServerError

\* PostHandler.CreatePost
CreatePost(tbl, tags, req, t) ==
  LET r == PostServiceCreate(tbl, tags, req, t)
  IN [status |-> IF r.err = Nil THEN StatusCreated
                 ELSE PostErrorStatus(r.err, {ErrPostSlugConflict}),
      err |-> r.err, post |-> r.post, posts |-> r.posts, post_tags |-> r.post_tags]

\* PostHandler.GetPostByID: a nil post is written as the JSON null, with 200.
GetPostByID(tbl, tags, id) ==
  LET r == PostServiceGetByID(tbl, tags, id)
  IN [status |-> IF r.err = Nil THEN StatusOK
                 ELSE PostErrorStatus(r.err, {ErrPostNotFound}),
      err |-> r.err, post |-> r.post, posts |-> r.posts, post_tags |-> r.post_tags]

\* PostHandler.UpdatePost
UpdatePost(tbl, tags, id, req, t) ==
  LET r == PostServiceUpdate(tbl, tags, id, req, t)
  IN [status |-> IF r.err = Nil THEN StatusOK
                 ELSE PostErrorStatus(r.err, {ErrPostNotFound, ErrPostSlugConflict}),
      err |-> r.err, post |-> r.post, posts |-> r.posts, post_tags |-> r.post_tags]

\* PostHandler.DeletePost
DeletePost(tbl, tags, id) ==
  LET r == PostServiceDelete(tbl, tags, id)
  IN [status |-> IF r.err = Nil THEN StatusNoContent
                 ELSE PostErrorStatus(r.err, {ErrPostNotFound}),
      err |-> r.err, post |-> r.post, posts |-> r.posts, post_tags |-> r.post_tags]

\* PostHandler.PublishPost
PublishPost(tbl, tags, id, t) ==
  LET r == PostServicePublish(tbl, tags, id, t)
  IN [status |-> IF r.err = Nil THEN StatusOK
                 ELSE PostErrorStatus(r.err, {ErrPostNotFound}),
      err |-> r.err, post |-> r.post, posts |-> r.posts, post_tags |-> r.post_tags]

\* PostHandler.ListPosts, registered on /api/posts with no middleware: query
\* holds the status parameter ("" when absent) and page and page_size after
\* strconv.Atoi; the category_id, author_id, featured and search parameters,
\* which only add conditions to the WHERE clause, are left out.
ListPosts(tbl, tags, query) ==
  LET page == IF query.page < 1 THEN 1 ELSE query.page
      pageSize == IF query.page_size < 1 \/ query.page_size > 100 THEN 10
                  ELSE query.page_size
      filter == [status |-> IF query.status # "" THEN query.status
                            ELSE StatusPublished,
                 limit |-> 0, offset |-> 0]
      r == PostServiceGetAll(tbl, tags, filter, page, pageSize)
  IN [status |-> StatusOK, posts |-> r.posts, total |-> r.total]

\* ------------------------------------------------------- presented tokens
\* What a caller can put in a request: a token of the pair it keeps, the
\* refresh token it got that pair with, a token signed with a key of its own,
\* garbage.
ForgedTokens ==
  {SignedString([kind |-> "claims", uid |-> 1, username |-> "u1", email |-> "e1",
                 role |-> RoleAdmin, iss |-> Issuer, sub |-> UuidString(1),
                 exp |-> e, iat |-> 0, nbf |-> 0], AttackerKey) :
     e \in {0, MaxTime + 1}}

PairTokens(p) == {p.access, p.refresh} \ {NoToken}

Presentable ==
  PairTokens(sess) \cup ({spent} \ {NoToken})
    \cup ForgedTokens \cup {MalformedToken}

Headers == {NoHeader, OtherHeader, Bearer(EmptyToken)} \cup {Bearer(tok) : tok \in Presentable}


\* What the last call was given and what it returned: its input token, the
\* instant it started at, its error, the pair or the claim set it returned,
\* whether ValidateToken went on to the refresh secret, the user of the
\* response, for a request through the middleware the HTTP status and whether
\* the token verifier was called, the request body, and whether the call
\* queried the directory; msg is the "error" text of the JSON response; for a
\* request through the middleware, hdr is the kind of its Authorization
\* header, allowed the roles of the RequireRole stage and handler the route
\* handler that ran ("" when none did) on the route asked for; at2 is the
\* instant RefreshToken reached RefreshTokens at; who and clk are the identity
\* GenerateTokenPair was called with and the clock reads of that call; for a
\* call of a post handler, id is the post id of the path, body the request
\* body or the query, post the post of the response and list the posts of a
\* listing.
Blank ==
  [op |-> "init", tok |-> NoToken, at |-> 0, err |-> Nil, pair |-> NoPair,
   claims |-> NoToken, triedRefresh |-> FALSE, user |-> NoUser, status |-> 0,
   verified |-> FALSE, req |-> NoRequest, dir |-> FALSE, msg |-> "",
   hdr |-> "", allowed |-> {}, route |-> "", handler |-> "", at2 |-> 0,
   who |-> NoUser, clk |-> <<>>, id |-> 0, body |-> NoRequest, post |-> NoPost,
   list |-> <<>>]

\* The goroutines that serve requests at the same time, and a worker with no
\* Register call in progress.
Workers == {1, 2}
IdleCall == [pc |-> "idle", req |-> NoRequest, user |-> NoUser, err |-> Nil,
             pair |-> NoPair]

\* ----------------------------------------------------------------- Init
Init ==
  /\ now = 0
  /\ accessSecret = "s1"
  /\ refreshSecret \in Secrets
  /\ users = {}
  /\ sess = NoPair
  /\ spent = NoToken
  /\ last = Blank
  /\ posts = {}
  /\ post_tags = {}
  /\ calls = [w \in Workers |-> IdleCall]
  /\ loggedOut = {}

\* ------------------------------------------------------ environment steps
\* The wall clock passes into the next second.
Wait ==
  /\ now < MaxTime
  /\ now' = now + 1
  /\ last' = Blank
  /\ UNCHANGED <<accessSecret, refreshSecret, users, sess, spent, posts, post_tags, calls, loggedOut>>

RefreshOps == {"RefreshTokens", "RefreshToken"}

\* The caller reads the response: it keeps the pair it was handed and
\* remembers the refresh token it had presented for it.
Keep ==
  /\ last.pair # NoPair
  /\ sess' = last.pair
  /\ spent' = IF last.op \in RefreshOps THEN last.tok ELSE NoToken
  /\ last' = Blank
  /\ UNCHANGED <<now, accessSecret, refreshSecret, users, posts, post_tags, calls, loggedOut>>

\* The caller drops the response without keeping anything of it.
Discard ==
  /\ last # Blank
  /\ last' = Blank
  /\ UNCHANGED <<now, accessSecret, refreshSecret, users, sess, spent, posts, post_tags, calls, loggedOut>>

\* ---------------------------------------------- jwtService, called directly
\* The identities the service is asked to issue for when it is exercised alone.
Identities ==
  {[uid |-> 1, username |-> "u1", email |-> "e1", role |-> ro] : ro \in Roles}

CallGenerateTokenPair ==
  \E who \in Identities, clk \in ClockReads(now) :
    /\ last' = [Blank EXCEPT !.op = "GenerateTokenPair", !.at = now,
                   !.who = who, !.clk = clk,
                   !.pair = GenerateTokenPair(who.uid, who.username, who.email,
                                              who.role, clk)]
    /\ now' = clk[6]
    /\ UNCHANGED <<accessSecret, refreshSecret, users, sess, spent, posts, post_tags, calls, loggedOut>>

CallValidateToken ==
  \E tok \in Presentable :
    LET r == ValidateToken(tok, now)
    IN /\ last' = [Blank EXCEPT !.op = "ValidateToken", !.tok = tok, !.at = now,
                      !.err = r.err, !.claims = r.claims,
                      !.triedRefresh = r.triedRefresh]
       /\ UNCHANGED <<now, accessSecret, refreshSecret, users, sess, spent, posts, post_tags, calls, loggedOut>>

CallRefreshTokens ==
  \E tok \in Presentable, clk \in ClockReads(now) :
    LET r == RefreshTokens(tok, now, clk)
    IN /\ last' = [Blank EXCEPT !.op = "RefreshTokens", !.tok = tok, !.at = now,
                      !.err = r.err, !.pair = r.pair]
       /\ now' = IF r.err = Nil THEN clk[6] ELSE now
       /\ UNCHANGED <<accessSecret, refreshSecret, users, sess, spent, posts, post_tags, calls, loggedOut>>

\* A request through AuthMiddleware.Authenticate with any Authorization header.
AuthenticateRequest ==
  \E hdr \in Headers :
    LET r == Authenticate(hdr, now)
    IN /\ last' = [Blank EXCEPT !.op = "Authenticate", !.hdr = hdr.kind,
                      !.tok = IF hdr.kind = "bearer" THEN hdr.token ELSE NoToken,
                      !.at = now, !.err = r.error, !.claims = r.claims,
                      !.status = r.status, !.verified = r.verified]
       /\ UNCHANGED <<now, accessSecret, refreshSecret, users, sess, spent, posts, post_tags, calls, loggedOut>>

\* One call at a time, each result read (Keep) or dropped (Discard) before
\* the next.
NextJwt ==
  \/ last = Blank /\ Wait
  \/ Keep
  \/ Discard
  \/ last = Blank /\ CallGenerateTokenPair
  \/ last = Blank /\ CallValidateToken
  \/ last = Blank /\ CallRefreshTokens
  \/ last = Blank /\ AuthenticateRequest

SpecJwt == Init /\ [][NextJwt]_vars

\* ------------------------------------------------ the service as a whole
RegisterRequests ==
  [email : Emails, username : Usernames, password : Passwords, role : Roles]
LoginRequests == [email : Emails, password : Passwords]

\* The one account of the session scenarios.
SessionRequests ==
  {[email |-> "e1", username |-> "u1", password |-> "p1", role |-> RoleUser]}

\* The clock reads of a service call that arrives in second t: the call's
\* GenerateTokenPair may run in a later second than the one the request
\* arrived in (its own six reads are taken to fall in one second here;
\* CallGenerateTokenPair spreads them).
ServiceReads(t) == {[i \in 1..6 |-> t2] : t2 \in t..Min(t + MaxDrift, MaxTime)}

\* POST /api/auth/register
DoRegister(reqs) ==
  \E req \in reqs, clk \in ServiceReads(now) :
    /\ (\A u \in users : u.email # req.email /\ u.username # req.username)
         => FreeIDs(users) # {}
    /\ LET r == Register(users, req, clk)
       IN /\ users' = r.users
          /\ last' = [Blank EXCEPT !.op = "Register", !.at = now, !.err = r.err,
                         !.pair = r.pair, !.user = r.user, !.req = req]
          /\ now' = IF r.err = Nil THEN clk[6] ELSE now
    /\ UNCHANGED <<accessSecret, refreshSecret, sess, spent, posts, post_tags, calls, loggedOut>>

\* POST /api/auth/login
DoLogin ==
  \E req \in LoginRequests, clk \in ServiceReads(now) :
    LET r == AuthHandlerLogin(users, req, clk)
    IN /\ last' = [Blank EXCEPT !.op = "Login", !.at = now, !.err = r.err,
                      !.pair = r.pair, !.user = r.user,
                      !.status = r.status, !.msg = r.msg,
                      !.req = [NoRequest EXCEPT !.email = req.email,
                                                !.password = req.password]]
       /\ now' = IF r.err = Nil THEN clk[6] ELSE now
       /\ UNCHANGED <<accessSecret, refreshSecret, users, sess, spent, posts, post_tags, calls, loggedOut>>

\* POST /api/auth/refresh
DoRefreshToken ==
  \E tok \in Presentable, clk \in ServiceReads(now) :
    LET r == RefreshToken(users, tok, now, clk[1], clk)
    IN /\ last' = [Blank EXCEPT !.op = "RefreshToken", !.tok = tok, !.at = now,
                      !.err = r.err, !.pair = r.pair, !.user = r.user,
                      !.dir = r.dir, !.at2 = clk[1]]
       /\ now' = IF r.err = Nil THEN clk[6] ELSE now
       /\ UNCHANGED <<accessSecret, refreshSecret, users, sess, spent, posts, post_tags, calls, loggedOut>>

\* The caller keeps the pair of the response.
KeepPair ==
  /\ last.pair # NoPair
  /\ sess' = last.pair
  /\ last' = Blank
  /\ UNCHANGED <<now, accessSecret, refreshSecret, users, spent, posts, post_tags, calls, loggedOut>>

\* The directory changes under the service: userRepository.Update of a row's
\* username, role and is_active, and userRepository.Delete.
UpdateUser ==
  \E u \in users, un \in Usernames, ro \in Roles, act \in BOOLEAN :
    LET r == Update(users, [u EXCEPT !.username = un, !.role = ro, !.is_active = act])
    IN /\ r.err = Nil
       /\ r.users # users
       /\ users' = r.users
       /\ last' = Blank
       /\ UNCHANGED <<now, accessSecret, refreshSecret, sess, spent, posts, post_tags, calls, loggedOut>>

DeleteUser ==
  \E u \in users :
    LET r == Delete(users, u.id)
    IN /\ r.err = Nil
       /\ users' = r.users
       /\ last' = Blank
       /\ UNCHANGED <<now, accessSecret, refreshSecret, sess, spent, posts, post_tags, calls, loggedOut>>

\* Sessions of one account against a changing directory.
Next ==
  \/ Wait
  \/ KeepPair
  \/ DoRegister(SessionRequests)
  \/ DoLogin
  \/ DoRefreshToken
  \/ UpdateUser
  \/ DeleteUser

Spec == Init /\ [][Next]_vars

\* Registration and login of any account.
NextAuth ==
  \/ last = Blank /\ DoRegister(RegisterRequests)
  \/ last = Blank /\ DoLogin
  \/ last = Blank /\ UpdateUser
  \/ last = Blank /\ DeleteUser
  \/ Discard

SpecAuth == Init /\ [][NextAuth]_vars

\* ------------------------------------------------- requests through a gate
\* A request to a route behind Authenticate and RequireRole(allowed...).
GateRequest ==
  \E hdr \in Headers, allowed \in SUBSET Roles :
    LET r == Gate(hdr, now, allowed)
    IN /\ last = Blank
       /\ last' = [Blank EXCEPT !.op = "Gate", !.hdr = hdr.kind,
                      !.tok = IF hdr.kind = "bearer" THEN hdr.token ELSE NoToken,
                      !.at = now, !.err = r.error, !.claims = r.claims,
                      !.status = r.status, !.verified = r.verified,
                      !.allowed = allowed]
       /\ UNCHANGED <<now, accessSecret, refreshSecret, users, sess, spent, posts, post_tags, calls, loggedOut>>

\* A request to a route of group /api/admin: its handler runs when the chain
\* Authenticate, RequireRole("admin") lets the request through.
AdminRequest ==
  \E hdr \in Headers, h \in AdminHandlers :
    LET r == Gate(hdr, now, {RoleAdmin})
    IN /\ last = Blank
       /\ last' = [Blank EXCEPT !.op = "Admin", !.hdr = hdr.kind,
                      !.tok = IF hdr.kind = "bearer" THEN hdr.token ELSE NoToken,
                      !.at = now, !.err = r.error, !.claims = r.claims,
                      !.status = r.status, !.verified = r.verified,
                      !.allowed = {RoleAdmin}, !.route = h,
                      !.handler = IF r.passed THEN h ELSE ""]
       /\ UNCHANGED <<now, accessSecret, refreshSecret, users, sess, spent, posts, post_tags, calls, loggedOut>>

\* The account's role is changed in the directory (userRepository.Update).
SetRole ==
  \E u \in users, ro \in Roles :
    LET r == Update(users, [u EXCEPT !.role = ro])
    IN /\ last = Blank
       /\ r.err = Nil
       /\ r.users # users
       /\ users' = r.users
       /\ UNCHANGED <<now, accessSecret, refreshSecret, sess, spent, last, posts, post_tags, calls, loggedOut>>

\* Sessions of one account, used against gated routes; one request at a
\* time, each response read (Keep) or dropped (Discard) before the next.
NextGate ==
  \/ last = Blank /\ Wait
  \/ Keep
  \/ Discard
  \/ last = Blank /\ DoRegister(SessionRequests)
  \/ last = Blank /\ DoLogin
  \/ last = Blank /\ DoRefreshToken
  \/ SetRole
  \/ GateRequest
  \/ AdminRequest

SpecGate == Init /\ [][NextGate]_vars

\* ------------------------------------------------------- tampered tokens
\* The signature of a token whose signature bytes were changed: the HMAC of
\* no key.
NoKey == ""

\* What a token string can become when one of its bytes is changed: a string
\* that no longer splits and decodes into three segments; a payload that
\* decodes to another username or a later exp, under the signature of the
\* original; a signature segment that decodes to other bytes; a signature
\* segment whose last character differs in the bits that carry no data.
Tamperings(tok) ==
  {MalformedToken}
    \cup {[tok EXCEPT !.username = un] : un \in Usernames \ {tok.username}}
    \cup {[tok EXCEPT !.exp = tok.exp + 1]}
    \cup {[tok EXCEPT !.key = NoKey]}
    \cup {[tok EXCEPT !.pad = b] : b \in 1..3}

TamperedTokens == UNION {Tamperings(tok) : tok \in PairTokens(sess)}

\* ValidateToken and RefreshTokens called with a tampered copy of a token of
\* the kept pair.
ValidateTampered ==
  \E tok \in TamperedTokens :
    LET r == ValidateToken(tok, now)
    IN /\ last = Blank
       /\ last' = [Blank EXCEPT !.op = "ValidateToken", !.tok = tok, !.at = now,
                      !.err = r.err, !.claims = r.claims,
                      !.triedRefresh = r.triedRefresh]
       /\ UNCHANGED <<now, accessSecret, refreshSecret, users, sess, spent, posts, post_tags, calls, loggedOut>>

RefreshTampered ==
  \E tok \in TamperedTokens, clk \in ServiceReads(now) :
    LET r == RefreshTokens(tok, now, clk)
    IN /\ last = Blank
       /\ last' = [Blank EXCEPT !.op = "RefreshTokens", !.tok = tok, !.at = now,
                      !.err = r.err, !.pair = r.pair]
       /\ UNCHANGED <<now, accessSecret, refreshSecret, users, sess, spent, posts, post_tags, calls, loggedOut>>

NextTamper ==
  \/ last = Blank /\ Wait
  \/ last = Blank /\ CallGenerateTokenPair
  \/ last.op = "GenerateTokenPair" /\ Keep
  \/ Discard
  \/ ValidateTampered
  \/ RefreshTampered

SpecTamper == Init /\ [][NextTamper]_vars

\* ------------------------------------------------------------------ logout
\* POST /api/auth/logout with any Authorization header. The caller notes the
\* pair it has logged out when the request carried a token of the pair it
\* keeps and was answered 200.
DoLogout ==
  \E hdr \in Headers :
    LET r == AuthHandlerLogout(hdr)
        tok == IF hdr.kind = "bearer" THEN hdr.token ELSE NoToken
    IN /\ last = Blank
       /\ last' = [Blank EXCEPT !.op = "Logout", !.hdr = hdr.kind, !.tok = tok,
                      !.at = now, !.status = r.status, !.msg = r.msg,
                      !.verified = r.verified]
       /\ loggedOut' = IF r.status = StatusOK /\ tok \in PairTokens(sess)
                         THEN PairTokens(sess) ELSE loggedOut
       /\ UNCHANGED <<now, accessSecret, refreshSecret, users, sess, spent,
                      posts, post_tags, calls>>

\* Sessions of one account with logout; one request at a time.
NextLogout ==
  \/ last = Blank /\ Wait
  \/ Keep
  \/ Discard
  \/ last = Blank /\ DoRegister(SessionRequests)
  \/ last = Blank /\ DoLogin
  \/ last = Blank /\ DoRefreshToken
  \/ last = Blank /\ AuthenticateRequest
  \/ DoLogout

SpecLogout == Init /\ [][NextLogout]_vars

\* ------------------------------------- the gate and a changing directory
\* What c.Get(UserContextKey) can find when RequireRole runs on its own: no
\* value (NoToken), a value of another type, the claim set of a token of the
\* kept pair.
OtherValue == [kind |-> "string"]
Contexts == {NoToken, OtherValue} \cup {UnmarshalClaims(tok) : tok \in PairTokens(sess)}

\* A request to a route with the RequireRole(allowed...) stage and no
\* Authenticate stage before it.
RequireRoleRequest ==
  \E ctx \in Contexts, allowed \in SUBSET Roles :
    LET r == RequireRole(allowed, ctx)
    IN /\ last = Blank
       /\ last' = [Blank EXCEPT !.op = "RequireRole", !.at = now, !.claims = ctx,
                      !.err = r.error, !.status = r.status, !.allowed = allowed,
                      !.route = "Handler",
                      !.handler = IF r.status = 0 THEN "Handler" ELSE ""]
       /\ UNCHANGED <<now, accessSecret, refreshSecret, users, sess, spent,
                      posts, post_tags, calls, loggedOut>>

\* Sessions of one account whose row is updated and deleted while its tokens
\* are in use; one request at a time.
NextStale ==
  \/ last = Blank /\ Wait
  \/ Keep
  \/ Discard
  \/ last = Blank /\ DoRegister(SessionRequests)
  \/ last = Blank /\ DoLogin
  \/ last = Blank /\ UpdateUser
  \/ last = Blank /\ DeleteUser
  \/ GateRequest
  \/ AdminRequest
  \/ RequireRoleRequest

SpecStale == Init /\ [][NextStale]_vars

\* ------------------------------------------------------------------ posts
CreatePostRequests ==
  [slug : Slugs, status : PostStatuses, tag_ids : {{}, {1}, {1, 2}}]
UpdatePostRequests ==
  [slug : Slugs \cup {""}, status : PostStatuses \cup {""}, tag_ids : {{}, {2}}]
ListQueries ==
  [status : PostStatuses \cup {""}, page : {0, 2}, page_size : {1, 101}]

\* POST /api/admin/posts
DoCreatePost(reqs) ==
  \E req \in reqs :
    LET r == CreatePost(posts, post_tags, req, now)
    IN /\ last = Blank
       /\ (\A p \in posts : p.slug # req.slug) => FreePostIDs(posts) # {}
       /\ posts' = r.posts
       /\ post_tags' = r.post_tags
       /\ last' = [Blank EXCEPT !.op = "CreatePost", !.at = now, !.body = req,
                      !.err = r.err, !.status = r.status, !.post = r.post]
       /\ UNCHANGED <<now, accessSecret, refreshSecret, users, sess, spent,
                      calls, loggedOut>>

\* GET /api/posts/:id
DoGetPostByID ==
  \E id \in PostIDs :
    LET r == GetPostByID(posts, post_tags, id)
    IN /\ last = Blank
       /\ last' = [Blank EXCEPT !.op = "GetPostByID", !.at = now, !.id = id,
                      !.err = r.err, !.status = r.status, !.post = r.post]
       /\ UNCHANGED <<now, accessSecret, refreshSecret, users, sess, spent,
                      posts, post_tags, calls, loggedOut>>

\* PUT /api/admin/posts/:id
DoUpdatePost(reqs) ==
  \E id \in PostIDs, req \in reqs :
    LET r == UpdatePost(posts, post_tags, id, req, now)
    IN /\ last = Blank
       /\ posts' = r.posts
       /\ post_tags' = r.post_tags
       /\ last' = [Blank EXCEPT !.op = "UpdatePost", !.at = now, !.id = id,
                      !.body = req, !.err = r.err, !.status = r.status,
                      !.post = r.post]
       /\ UNCHANGED <<now, accessSecret, refreshSecret, users, sess, spent,
                      calls, loggedOut>>

\* DELETE /api/admin/posts/:id
DoDeletePost ==
  \E id \in PostIDs :
    LET r == DeletePost(posts, post_tags, id)
    IN /\ last = Blank
       /\ posts' = r.posts
       /\ post_tags' = r.post_tags
       /\ last' = [Blank EXCEPT !.op = "DeletePost", !.at = now, !.id = id,
                      !.err = r.err, !.status = r.status]
       /\ UNCHANGED <<now, accessSecret, refreshSecret, users, sess, spent,
                      calls, loggedOut>>

\* PUT /api/admin/posts/:id/publish
DoPublishPost ==
  \E id \in PostIDs :
    LET r == PublishPost(posts, post_tags, id, now)
    IN /\ last = Blank
       /\ posts' = r.posts
       /\ post_tags' = r.post_tags
       /\ last' = [Blank EXCEPT !.op = "PublishPost", !.at = now, !.id = id,
                      !.err = r.err, !.status = r.status, !.post = r.post]
       /\ UNCHANGED <<now, accessSecret, refreshSecret, users, sess, spent,
                      calls, loggedOut>>

\* GET /api/posts, from any caller
DoListPosts ==
  \E query \in ListQueries :
    LET r == ListPosts(posts, post_tags, query)
    IN /\ last = Blank
       /\ last' = [Blank EXCEPT !.op = "ListPosts", !.at = now, !.body = query,
                      !.status = r.status, !.list = r.posts]
       /\ UNCHANGED <<now, accessSecret, refreshSecret, users, sess, spent,
                      posts, post_tags, calls, loggedOut>>

\* The post routes, one request at a time.
NextPosts ==
  \/ Discard
  \/ DoCreatePost(CreatePostRequests)
  \/ DoGetPostByID
  \/ DoUpdatePost(UpdatePostRequests)
  \/ DoDeletePost
  \/ DoPublishPost
  \/ DoListPosts

SpecPosts == Init /\ [][NextPosts]_vars

\* Posts that differ in their slugs only, created, renamed and deleted.
MoreSlugs == Slugs \cup {"c"}
SlugCreateRequests ==
  [slug : MoreSlugs, status : {StatusDraft}, tag_ids : {{}}]
SlugUpdateRequests ==
  [slug : MoreSlugs \cup {""}, status : {""}, tag_ids : {{}}]

NextSlugs ==
  \/ Discard
  \/ DoCreatePost(SlugCreateRequests)
  \/ DoUpdatePost(SlugUpdateRequests)
  \/ DoDeletePost

SpecSlugs == Init /\ [][NextSlugs]_vars

\* ---------------------------------------------------- concurrent Register
\* Two Register calls in flight at once, one per worker.  Each call is cut
\* at its database statements: the two SELECT COUNT(*) of
\* userRepository.Create and its INSERT are separate statements with no
\* transaction or lock around them, so the statements of the two calls
\* interleave in any order.  Each statement is atomic.
RaceRequests ==
  [email : Emails, username : Usernames, password : {"p1"}, role : {RoleUser}]

\* The call of worker w after one more step.
CallStep(w, c) == [calls EXCEPT ![w] = c]

\* authService.Register up to the call of Create: the password is hashed and
\* the user is built with the default role.
RegisterBegin(w) ==
  \E req \in RaceRequests :
    /\ calls[w].pc = "idle"
    /\ calls' = CallStep(w, [IdleCall EXCEPT
                   !.pc = "count_email", !.req = req,
                   !.user = [id |-> 0, email |-> req.email,
                             username |-> req.username,
                             password_hash |-> HashPassword(req.password),
                             role |-> RoleUser, is_active |-> TRUE,
                             deleted |-> FALSE]])
    /\ UNCHANGED <<now, accessSecret, refreshSecret, users, sess, spent, last,
                   posts, post_tags, loggedOut>>

\* SELECT COUNT(*) FROM users WHERE email = $1
CreateCountEmail(w) ==
  /\ calls[w].pc = "count_email"
  /\ calls' = CallStep(w,
       IF \E u \in users : u.email = calls[w].user.email
         THEN [calls[w] EXCEPT !.pc = "done", !.err = ErrEmailAlreadyExists,
                               !.user = NoUser]
       ELSE [calls[w] EXCEPT !.pc = "count_username"])
  /\ UNCHANGED <<now, accessSecret, refreshSecret, users, sess, spent, last,
                 posts, post_tags, loggedOut>>

\* SELECT COUNT(*) FROM users WHERE username = $1
CreateCountUsername(w) ==
  /\ calls[w].pc = "count_username"
  /\ calls' = CallStep(w,
       IF \E u \in users : u.username = calls[w].user.username
         THEN [calls[w] EXCEPT !.pc = "done", !.err = ErrUsernameAlreadyExists,
                               !.user = NoUser]
       ELSE [calls[w] EXCEPT !.pc = "insert"])
  /\ UNCHANGED <<now, accessSecret, refreshSecret, users, sess, spent, last,
                 posts, post_tags, loggedOut>>

\* The INSERT, and the rest of Register, which touches nothing shared but the
\* clock.  The users table has unique constraints on email and on username
\* (models.User); an INSERT that breaks one fails with the driver's error,
\* which Create and Register return as it is.
CreateInsert(w) ==
  /\ calls[w].pc = "insert"
  /\ IF \E u \in users : \/ u.email = calls[w].user.email
                         \/ u.username = calls[w].user.username
       THEN /\ calls' = CallStep(w, [calls[w] EXCEPT
                           !.pc = "done", !.err = ErrUniqueViolation,
                           !.user = NoUser])
            /\ UNCHANGED <<now, users>>
     ELSE /\ FreeIDs(users) # {}
          /\ \E clk \in ServiceReads(now) :
               LET row == [calls[w].user EXCEPT !.id = NewID(users)]
               IN /\ users' = users \cup {row}
                  /\ calls' = CallStep(w, [calls[w] EXCEPT
                                 !.pc = "done", !.user = row,
                                 !.pair = GenerateTokenPair(row.id, row.username,
                                            row.email, row.role, clk)])
                  /\ now' = clk[6]
  /\ UNCHANGED <<accessSecret, refreshSecret, sess, spent, last,
                 posts, post_tags, loggedOut>>

NextRace ==
  \E w \in Workers :
    \/ RegisterBegin(w)
    \/ CreateCountEmail(w)
    \/ CreateCountUsername(w)
    \/ CreateInsert(w)

SpecRace == Init /\ [][NextRace]_vars

\* ================================================================ claims
\* Shorthands over the last call.
LastIsJwt == last.tok.kind = "jwt"
LastSignedBy(secret) == LastIsJwt /\ last.tok.key = secret
LastAccessParse == ParseWithClaims(last.tok, accessSecret, last.at)
LastRefreshParse == ParseWithClaims(last.tok, refreshSecret, last.at)

\* C1: a token signed with the access secret whose expires_at is not after the
\* instant of the call makes ValidateToken return ErrExpiredToken, with no
\* claim set, and the refresh secret is not tried.
C1_ExpiryPrecedence ==
  (last.op = "ValidateToken" /\ LastSignedBy(accessSecret) /\ last.tok.exp <= last.at)
    => (last.err = ErrExpiredToken /\ last.claims = NoToken /\ ~last.triedRefresh)

C1_Witness ==
  /\ last.op = "ValidateToken" /\ LastSignedBy(accessSecret)
  /\ accessSecret # refreshSecret
  /\ last.tok.exp <= last.at
  /\ last.err = ErrExpiredToken

\* C2 as stated: whenever the access-secret parse fails for another reason
\* than expiry and the refresh-secret parse fails too, for any reason,
\* ValidateToken returns ErrInvalidToken.
C2_DoubleFailureInvalid ==
  (/\ last.op = "ValidateToken"
   /\ LastAccessParse.err # {} /\ ErrTokenExpired \notin LastAccessParse.err
   /\ LastRefreshParse.err # {})
    => last.err = ErrInvalidToken

\* C2 amended: in that case ValidateToken returns no claim set, and its error
\* is ErrExpiredToken when the refresh-secret parse failed with expiry (a
\* refresh token past its expires_at) and ErrInvalidToken otherwise.
C2_DoubleFailureClassified ==
  (/\ last.op = "ValidateToken"
   /\ LastAccessParse.err # {} /\ ErrTokenExpired \notin LastAccessParse.err
   /\ LastRefreshParse.err # {})
    => /\ last.claims = NoToken
       /\ last.triedRefresh
       /\ last.err = IF ErrTokenExpired \in LastRefreshParse.err
                       THEN ErrExpiredToken ELSE ErrInvalidToken

C2_Witness ==
  /\ last.op = "ValidateToken" /\ LastSignedBy(refreshSecret)
  /\ accessSecret # refreshSecret
  /\ last.tok.exp <= last.at
  /\ last.err = ErrExpiredToken /\ last.triedRefresh

\* C3: an unexpired token signed with the access secret or with the refresh
\* secret is accepted by ValidateToken, which returns the token's own claim
\* set; presented as a bearer credential it passes Authenticate, which stores
\* that claim set in the request context.
C3_FallbackAcceptance ==
  (/\ last.op \in {"ValidateToken", "Authenticate"}
   /\ (LastSignedBy(accessSecret) \/ LastSignedBy(refreshSecret))
   /\ last.at < last.tok.exp)
    => /\ last.err = Nil
       /\ last.claims = UnmarshalClaims(last.tok)
       /\ last.status = 0

C3_Witness ==
  /\ last.op = "Authenticate" /\ LastSignedBy(refreshSecret)
  /\ accessSecret # refreshSecret
  /\ last.at < last.tok.exp
  /\ last.claims = UnmarshalClaims(last.tok) /\ last.status = 0

\* C4: with two different secrets, RefreshTokens returns a pair only for a
\* token that is signed with the refresh secret and unexpired; a token signed
\* with the access secret or with any other key gets an error and no pair.
C4_StrictKeying ==
  (accessSecret # refreshSecret /\ last.op = "RefreshTokens"
     /\ (last.err = Nil \/ last.pair # NoPair))
    => /\ LastSignedBy(refreshSecret)
       /\ last.at < last.tok.exp
       /\ last.err = Nil /\ last.pair # NoPair

C4_Witness ==
  /\ last.op = "RefreshTokens" /\ LastSignedBy(accessSecret)
  /\ accessSecret # refreshSecret
  /\ last.at < last.tok.exp
  /\ last.err # Nil /\ last.pair = NoPair

\* C5: RefreshTokens returns ErrExpiredToken for a token validly signed with
\* the refresh secret but expired, and ErrInvalidToken for every other parse
\* failure; no other error leaves it for a parse failure.
C5_RefreshErrorClassification ==
  (last.op = "RefreshTokens" /\ LastRefreshParse.err # {})
    => last.err = IF ErrTokenExpired \in LastRefreshParse.err
                    THEN ErrExpiredToken ELSE ErrInvalidToken

\* C6: a second RefreshTokens call with the refresh token the kept pair was
\* obtained with, still unexpired, succeeds and returns a pair different from
\* the kept one, whenever the second call is made (stated for two different
\* secrets, so that the token is a refresh token and nothing else).
C6_RotationDistinctPairs ==
  (last.op = "RefreshTokens" /\ spent # NoToken /\ last.tok = spent
     /\ accessSecret # refreshSecret
     /\ LastSignedBy(refreshSecret) /\ last.at < last.tok.exp)
    => (last.err = Nil /\ last.pair # NoPair /\ last.pair # sess)

\* The identity fields of a token.
IdentityOf(tok) ==
  [uid |-> UnmarshalClaims(tok).uid, username |-> tok.username, email |-> tok.email,
   role |-> tok.role, sub |-> tok.sub]

\* The directory row of the presented token's subject (NoUser when none).
LastSubject == FindByID(users, UuidParse(last.tok.sub).id)

\* C7: both tokens of a pair returned by RefreshToken carry the subject id,
\* username, email and role of the presented token, whatever the directory
\* row of the subject says at the time of the call.
C7_StaleClaimsThroughRefresh ==
  (last.op = "RefreshToken" /\ last.err = Nil)
    => /\ last.pair # NoPair
       /\ IdentityOf(last.pair.access) = IdentityOf(last.tok)
       /\ IdentityOf(last.pair.refresh) = IdentityOf(last.tok)

C7_Witness ==
  /\ last.op = "RefreshToken" /\ last.err = Nil
  /\ LastSubject # NoUser
  /\ LastSubject.role # last.tok.role
  /\ LastSubject.username # last.tok.username
  /\ last.user.role = LastSubject.role
  /\ last.pair.access.role = last.tok.role

\* C8: RefreshToken with an unexpired token signed with the refresh secret
\* whose subject's row has is_active = false returns ErrUserNotActive and no
\* pair.
C8_RefreshEnforcesDeactivation ==
  (/\ last.op = "RefreshToken"
   /\ LastSignedBy(refreshSecret) /\ last.at < last.tok.exp
   /\ LastSubject # NoUser /\ ~LastSubject.is_active)
    => (last.err = ErrUserNotActive /\ last.pair = NoPair)

C8_Witness ==
  /\ last.op = "RefreshToken"
  /\ LastSignedBy(refreshSecret) /\ accessSecret # refreshSecret
  /\ last.at < last.tok.exp
  /\ LastSubject # NoUser /\ ~LastSubject.is_active
  /\ last.err = ErrUserNotActive

\* C9 as stated: for a token that does not parse under the refresh secret,
\* RefreshToken returns ErrExpiredToken or ErrInvalidToken without having
\* consulted the directory (so the result cannot depend on it).
C9_RefresherBeforeDirectory ==
  (last.op = "RefreshToken" /\ LastRefreshParse.err # {})
    => (last.err \in {ErrExpiredToken, ErrInvalidToken} /\ ~last.dir)

\* C9 amended: RefreshToken calls ValidateToken first, the directory second
\* and RefreshTokens last. A token that does not parse under the refresh
\* secret never gets a pair. If ValidateToken rejects it, the result is that
\* rejection, ErrExpiredToken or ErrInvalidToken, and the directory is not
\* consulted. If ValidateToken accepts it (an unexpired token signed with the
\* access secret), the directory is consulted and decides the result:
\* ErrUserNotFound for a missing subject, ErrUserNotActive for an inactive
\* one, and the signature error of RefreshTokens for an active one.
C9_VerifierThenDirectoryThenRefresher ==
  (last.op = "RefreshToken" /\ LastRefreshParse.err # {})
    => LET v == ValidateToken(last.tok, last.at)
       IN /\ last.pair = NoPair /\ last.err # Nil
          /\ v.err # Nil =>
                (last.err = v.err /\ last.err \in {ErrExpiredToken, ErrInvalidToken}
                   /\ ~last.dir)
          /\ v.err = Nil =>
                /\ last.dir
                /\ LastSignedBy(accessSecret)
                /\ last.err = IF LastSubject = NoUser THEN ErrUserNotFound
                               ELSE IF ~LastSubject.is_active THEN ErrUserNotActive
                               ELSE ErrTokenSignatureInvalid

C9_Witness ==
  /\ last.op = "RefreshToken"
  /\ LastSignedBy(accessSecret) /\ accessSecret # refreshSecret
  /\ last.at < last.tok.exp
  /\ LastSubject # NoUser /\ ~LastSubject.is_active
  /\ last.dir /\ last.err = ErrUserNotActive

\* C10: Login returns ErrInvalidCredentials when no row of the directory has
\* the email, ErrUserNotActive when the row has is_active = false (whatever
\* the password), ErrInvalidCredentials when the row is active and the
\* password does not verify, and a pair only when the row is active and the
\* password verifies.
C10_LoginClassification ==
  last.op = "Login" =>
    LET user == FindByEmail(users, last.req.email)
        found == user # NoUser
        pwOk == found /\ VerifyPassword(user.password_hash, last.req.password)
    IN /\ ~found => (last.err = ErrInvalidCredentials /\ last.pair = NoPair)
       /\ (found /\ ~user.is_active) => (last.err = ErrUserNotActive /\ last.pair = NoPair)
       /\ (found /\ user.is_active /\ ~pwOk)
            => (last.err = ErrInvalidCredentials /\ last.pair = NoPair)
       /\ (last.pair # NoPair \/ last.err = Nil)
            => (found /\ user.is_active /\ pwOk /\ last.err = Nil /\ last.pair # NoPair)

C10_Witness ==
  /\ last.op = "Login"
  /\ FindByEmail(users, last.req.email) # NoUser
  /\ ~FindByEmail(users, last.req.email).is_active
  /\ ~VerifyPassword(FindByEmail(users, last.req.email).password_hash, last.req.password)
  /\ last.err = ErrUserNotActive

\* The non-deleted row with the email of the last Login request.
LoginRow == FindByEmail(users, last.req.email)
LoginWrongPassword ==
  LoginRow # NoUser /\ ~VerifyPassword(LoginRow.password_hash, last.req.password)

\* The one response of a refused login.
LoginRefused ==
  /\ last.err = ErrInvalidCredentials
  /\ last.status = StatusUnauthorized /\ last.msg = "Invalid credentials"
  /\ last.pair = NoPair /\ last.user = NoUser

\* C11 as stated: an unknown email and a known email with a wrong password,
\* whatever the state of the account, get the same InvalidCredentials
\* response from Login.
C11_EnumerationResistance ==
  (last.op = "Login" /\ (LoginRow = NoUser \/ LoginWrongPassword)) => LoginRefused

\* C11 amended: an unknown email and the email of an active account with a
\* wrong password get the same InvalidCredentials response (401, "Invalid
\* credentials", no pair, no user); the email of an inactive account gets
\* ErrUserNotActive (403) whatever the password, which tells it apart from an
\* unknown email.
C11_EnumerationResistanceActive ==
  last.op = "Login" =>
    /\ (LoginRow = NoUser \/ (LoginWrongPassword /\ LoginRow.is_active)) => LoginRefused
    /\ (LoginRow # NoUser /\ ~LoginRow.is_active)
         => (last.err = ErrUserNotActive /\ last.status = StatusForbidden
               /\ last.msg # "Invalid credentials" /\ last.pair = NoPair)

C11_Witness ==
  /\ last.op = "Login"
  /\ LoginWrongPassword /\ LoginRow.is_active
  /\ LoginRefused

\* C12: a Register call whose email is already in table users returns
\* ErrEmailAlreadyExists; one whose email is free and whose username is
\* already in the table returns ErrUsernameAlreadyExists; either way the call
\* returns no pair and no user, and the table is the same after the call as
\* before it.
C12_RegisterConflictRejection ==
  [][last'.op = "Register" =>
       LET emailTaken == \E u \in users : u.email = last'.req.email
           usernameTaken == \E u \in users : u.username = last'.req.username
       IN /\ emailTaken => last'.err = ErrEmailAlreadyExists
          /\ (~emailTaken /\ usernameTaken) => last'.err = ErrUsernameAlreadyExists
          /\ (emailTaken \/ usernameTaken)
               => (users' = users /\ last'.pair = NoPair /\ last'.user = NoUser)]_vars

C12_Witness ==
  /\ last.op = "Register" /\ last.err = ErrUsernameAlreadyExists
  /\ \E u \in users : u.username = last.req.username /\ u.email # last.req.email
  /\ last.pair = NoPair

\* C13: a successful Register call adds exactly one row to table users, with
\* the email and username of the request, role "user" and is_active = true,
\* whatever role the request carried; both tokens of the returned pair and
\* the user of the response carry role "user". No Register step adds or
\* changes any other row, so Register calls alone never make an admin.
C13_RegisterDefaultRole ==
  [][(last'.op = "Register" /\ last'.err = Nil) =>
       /\ \E row \in users' \ users :
            /\ users' = users \cup {row}
            /\ row.email = last'.req.email /\ row.username = last'.req.username
            /\ row.role = RoleUser /\ row.is_active /\ ~row.deleted
            /\ UnmarshalClaims(last'.pair.access).uid = row.id
            /\ UnmarshalClaims(last'.pair.refresh).uid = row.id
       /\ last'.pair.access.role = RoleUser
       /\ last'.pair.refresh.role = RoleUser
       /\ last'.user.role = RoleUser]_vars

C13_Witness ==
  /\ last.op = "Register" /\ last.err = Nil
  /\ last.req.role = RoleAdmin
  /\ last.pair.access.role = RoleUser /\ last.pair.refresh.role = RoleUser
  /\ \E u \in users : u.email = last.req.email /\ u.role = RoleUser /\ u.is_active

\* C14: Authenticate answers 401 without calling the verifier when the
\* Authorization header is absent, is not "Bearer <token>", or carries an
\* empty token; it answers 401 with "Token has expired" or "Invalid token",
\* after ErrExpiredToken or another error of the verifier, and aborts; it
\* stores the claims and runs the next stage exactly when the verifier
\* accepted the token.
C14_AuthenticateStage ==
  last.op = "Authenticate" =>
    LET v == ValidateToken(last.tok, last.at)
        noToken == last.hdr # "bearer" \/ last.tok = EmptyToken
    IN /\ noToken =>
            (last.status = StatusUnauthorized /\ ~last.verified /\ last.claims = NoToken)
       /\ (~noToken /\ v.err # Nil) =>
            /\ last.status = StatusUnauthorized /\ last.verified
            /\ last.claims = NoToken
            /\ last.err = IF v.err = ErrExpiredToken THEN "Token has expired"
                           ELSE "Invalid token"
       /\ (~noToken /\ v.err = Nil) =>
            (last.status = 0 /\ last.verified /\ last.claims = v.claims)
       /\ (last.status = 0 \/ last.claims # NoToken) => (~noToken /\ v.err = Nil)

C14_Witness ==
  /\ last.op = "Authenticate" /\ last.hdr = "bearer"
  /\ LastSignedBy(accessSecret) /\ last.tok.exp <= last.at
  /\ last.status = StatusUnauthorized /\ last.err = "Token has expired"
  /\ last.claims = NoToken

\* C15: when Authenticate has stored a claim set in the request context,
\* RequireRole(allowed...) runs the next stage if and only if the role of the
\* claim set is one of the allowed roles, and answers 403 otherwise.
C15_RoleGate ==
  (last.op \in {"Gate", "Admin"} /\ last.claims # NoToken)
    => /\ (last.status = 0) <=> (last.claims.role \in last.allowed)
       /\ last.claims.role \notin last.allowed
            => (last.status = StatusForbidden
                  /\ last.err = "Forbidden: insufficient permissions")

C15_Witness ==
  /\ last.op = "Gate" /\ last.allowed = {RoleAdmin}
  /\ last.claims # NoToken /\ last.claims.role = RoleUser
  /\ last.status = StatusForbidden

\* C16: a handler of group /api/admin runs only for a request with a bearer
\* token that the verifier accepts and whose claims carry role "admin"; every
\* other request to the group is answered 401 or 403 and no handler runs.
C16_AdminOnlyRoutes ==
  last.op = "Admin" =>
    LET v == ValidateToken(last.tok, last.at)
        admitted == /\ last.hdr = "bearer" /\ last.tok # EmptyToken
                    /\ v.err = Nil /\ v.claims.role = RoleAdmin
    IN /\ last.handler # "" => (admitted /\ last.handler = last.route)
       /\ ~admitted =>
            (last.handler = "" /\ last.status \in {StatusUnauthorized, StatusForbidden})

C16_Witness ==
  /\ last.op = "Admin" /\ last.route = "PublishPost"
  /\ last.handler = "PublishPost"
  /\ last.claims # NoToken /\ last.claims.role = RoleAdmin

\* C17: the access token of the pair a caller keeps from Register, Login or
\* RefreshToken, with role "user", passes Authenticate and RequireRole("user")
\* at every instant before its exp and is answered 401 "Token has expired" at
\* every instant from its exp on; RefreshToken with the kept refresh token,
\* unexpired when RefreshTokens parses it, for an active account, returns a
\* new pair whose access token is unexpired and has the same role.
C17_SessionLifecycle ==
  /\ (/\ last.op = "Gate" /\ last.allowed = {RoleUser}
      /\ last.hdr = "bearer" /\ sess # NoPair /\ last.tok = sess.access
      /\ last.tok.role = RoleUser)
       => IF last.at < last.tok.exp
            THEN last.status = 0 /\ last.claims = UnmarshalClaims(last.tok)
            ELSE last.status = StatusUnauthorized /\ last.err = "Token has expired"
  /\ (/\ last.op = "RefreshToken" /\ sess # NoPair /\ last.tok = sess.refresh
      /\ last.at2 < last.tok.exp
      /\ LastSubject # NoUser /\ LastSubject.is_active)
       => /\ last.err = Nil /\ last.pair # NoPair
          /\ now < last.pair.access.exp
          /\ last.pair.access.role = last.tok.role

\* The kept pair came from a refresh made when the access token issued with
\* the presented refresh token had expired, and its access token passes.
C17_Witness ==
  /\ last.op = "Gate" /\ last.allowed = {RoleUser}
  /\ sess # NoPair /\ last.tok = sess.access /\ last.tok.role = RoleUser
  /\ spent # NoToken
  /\ sess.access.iat >= spent.iat + AccessExpiry
  /\ last.status = 0

\* C18: both claim sets of a pair built by GenerateTokenPair satisfy
\* nbf <= iat < exp, however the clock advances between the reads of the call.
C18_ClaimTiming ==
  (last.op = "GenerateTokenPair" /\ last.pair # NoPair)
    => \A tok \in PairTokens(last.pair) : tok.nbf <= tok.iat /\ tok.iat < tok.exp

C20_TamperDetection ==
  (/\ last.op \in {"ValidateToken", "RefreshTokens"}
   /\ \E orig \in PairTokens(sess) : last.tok \in Tamperings(orig))
    => /\ last.err # Nil
       /\ last.claims = NoToken /\ last.pair = NoPair
       /\ LastAccessParse.err \cap {ErrTokenSignatureInvalid, ErrTokenMalformed} # {}
       /\ LastRefreshParse.err \cap {ErrTokenSignatureInvalid, ErrTokenMalformed} # {}

C22_LogoutInvalidates ==
  (last.op \in {"Authenticate", "RefreshToken"} /\ last.tok \in loggedOut)
    => /\ last.err # Nil
       /\ last.claims = NoToken /\ last.pair = NoPair
       /\ last.op = "Authenticate" => last.status = StatusUnauthorized

\* C23: RequireRole answers 401 and runs no handler when the request context
\* holds no claim set ("Unauthorized") or a value that is not a claim set
\* ("Invalid user claims"); no handler behind RequireRole runs without a claim
\* set in the context.
C23_RequireRoleNoContext ==
  /\ (last.op = "RequireRole" /\ last.claims.kind # "claims")
       => /\ last.status = StatusUnauthorized /\ last.handler = ""
          /\ last.err = IF last.claims = NoToken THEN "Unauthorized"
                         ELSE "Invalid user claims"
  /\ (last.op \in {"RequireRole", "Admin"} /\ last.handler # "")
       => (last.claims.kind = "claims" /\ last.claims.role \in last.allowed)

C23_Witness ==
  /\ last.op = "RequireRole" /\ last.claims = NoToken
  /\ last.allowed = Roles
  /\ last.status = StatusUnauthorized /\ last.err = "Unauthorized"
  /\ last.handler = ""

\* C26: what Authenticate and RequireRole answer for a token depends on the
\* token, the secrets and the instant only. A token signed with a secret of
\* the server passes the chain exactly when the instant is before its exp and
\* its own role is an allowed one, with its own role in the stored claims,
\* whatever the row of its subject says or whether there is one; and a step
\* that changes table users at an unchanged instant changes the answer of the
\* chain for no header and no set of allowed roles.
C26_GateIgnoresDirectory ==
  /\ [](/\ last.op \in {"Gate", "Admin"} /\ last.hdr = "bearer"
         /\ (LastSignedBy(accessSecret) \/ LastSignedBy(refreshSecret))
           => /\ (last.status = 0)
                   <=> (last.at < last.tok.exp /\ last.tok.role \in last.allowed)
              /\ last.status = 0 => last.claims = UnmarshalClaims(last.tok))
  /\ [][(users' # users /\ now' = now)
          => \A hdr \in Headers, allowed \in SUBSET Roles :
               Gate(hdr, now, allowed)' = Gate(hdr, now, allowed)]_vars

\* An admin token whose subject has been deleted runs an admin handler.
C26_Witness ==
  /\ last.op = "Admin" /\ last.handler = "DeletePost"
  /\ LastSignedBy(accessSecret) /\ last.tok.role = RoleAdmin
  /\ LastSubject = NoUser
  /\ \E u \in users : u.id = UnmarshalClaims(last.tok).uid /\ u.deleted

\* A token with role admin passes RequireRole("admin") after its subject was
\* demoted to user and deactivated.
C26_WitnessDemoted ==
  /\ last.op = "Gate" /\ last.allowed = {RoleAdmin} /\ last.status = 0
  /\ LastSubject # NoUser /\ LastSubject.role = RoleUser /\ ~LastSubject.is_active

\* C24: every post in the answer of GET /api/posts has status "published",
\* whatever the query parameters of the request.
C24_PublicListingPublishedOnly ==
  last.op = "ListPosts"
    => \A i \in 1..Len(last.list) : last.list[i].status = StatusPublished

\* C25: after a Publish call that succeeded, the post read back by GetByID
\* has status "published" and a published_at that is not null.
C25_PublishPersists ==
  (last.op = "PublishPost" /\ last.err = Nil)
    => LET stored == PostServiceGetByID(posts, post_tags, last.id).post
       IN /\ stored # NoPost
          /\ stored.status = StatusPublished
          /\ stored.published_at # Null

\* C28: a Publish call, and an Update call whose request carries no tag_ids,
\* leave the post with the tags it had: the post_tags rows of the post are
\* the same after the call as before it.
C28_TagsPreserved ==
  [][(\/ last'.op = "PublishPost"
      \/ last'.op = "UpdatePost" /\ last'.body.tag_ids = {})
       => getPostTags(post_tags', last'.id) = getPostTags(post_tags, last'.id)]_vars

\* C29: GetByID, Update, Delete and Publish called with an id that no
\* non-deleted post has return ErrPostNotFound, which the handler answers
\* with 404, and change neither table.
C29_MissingPostNotFound ==
  [][(/\ last'.op \in {"GetPostByID", "UpdatePost", "DeletePost", "PublishPost"}
      /\ \A p \in posts : p.id = last'.id => p.deleted)
       => /\ last'.err = ErrPostNotFound
          /\ last'.status = StatusNotFound
          /\ posts' = posts /\ post_tags' = post_tags]_vars

\* The non-deleted posts with a slug.
LivePosts(tbl, slug) == {p \in tbl : ~p.deleted /\ p.slug = slug}

\* A step of Create with the slug of a non-deleted post, or of Update of a
\* non-deleted post to the slug of another non-deleted post, is refused.
SlugConflictRefused ==
  LET refused == /\ last'.err = ErrPostSlugConflict
                 /\ last'.status = StatusConflict
                 /\ posts' = posts
                 /\ post_tags' = post_tags
  IN /\ (last'.op = "CreatePost" /\ LivePosts(posts, last'.body.slug) # {})
          => refused
     /\ (/\ last'.op = "UpdatePost"
         /\ \E p \in posts : p.id = last'.id /\ ~p.deleted
         /\ \E q \in LivePosts(posts, last'.body.slug) : q.id # last'.id)
          => refused

\* C30: no two non-deleted posts ever have the same slug; a Create with the
\* slug of a non-deleted post, and an Update of a non-deleted post to the slug
\* of another non-deleted post, return ErrPostSlugConflict (409) and leave
\* both tables as they were.
C30_SlugUniqueness ==
  /\ [](\A p, q \in posts : (~p.deleted /\ ~q.deleted /\ p.slug = q.slug) => p = q)
  /\ [][SlugConflictRefused]_vars

\* An Update to the slug of the other live post was refused.
C30_Witness ==
  /\ last.op = "UpdatePost" /\ last.err = ErrPostSlugConflict
  /\ \E p, q \in posts :
       /\ p.id = last.id /\ q.id # last.id /\ ~p.deleted /\ ~q.deleted
       /\ q.slug = last.body.slug /\ p.slug # q.slug


\* C27: when two Register calls with the same email (or the same username)
\* run concurrently and both have returned, at most one record has that email
\* (username), exactly one of the calls returned a token pair, and the other
\* returned ErrEmailAlreadyExists (ErrUsernameAlreadyExists) for a field the
\* two requests share.
BothReturned(w1, w2) ==
  /\ w1 # w2
  /\ calls[w1].pc = "done" /\ calls[w2].pc = "done"
  /\ \/ calls[w1].req.email = calls[w2].req.email
     \/ calls[w1].req.username = calls[w2].req.username

\* The conflict errors that name a field the two requests share.
RaceConflicts(w1, w2) ==
  {e \in {ErrEmailAlreadyExists} : calls[w1].req.email = calls[w2].req.email}
    \cup {e \in {ErrUsernameAlreadyExists} :
              calls[w1].req.username = calls[w2].req.username}

C27_ConcurrentRegistration ==
  \A w1, w2 \in Workers :
    BothReturned(w1, w2) =>
      /\ Cardinality({u \in users : u.email = calls[w1].req.email}) <= 1
      /\ Cardinality({u \in users : u.username = calls[w1].req.username}) <= 1
      /\ \/ calls[w1].pair # NoPair /\ calls[w2].pair = NoPair
         \/ calls[w2].pair # NoPair /\ calls[w1].pair = NoPair
      /\ calls[w1].pair = NoPair => calls[w1].err \in RaceConflicts(w1, w2)


\* The part of C27 the unique constraints of the users table keep: at most
\* one record per email and per username, and exactly one token pair.
C27_AtMostOneRecord ==
  \A w1, w2 \in Workers :
    BothReturned(w1, w2) =>
      /\ Cardinality({u \in users : u.email = calls[w1].req.email}) <= 1
      /\ Cardinality({u \in users : u.username = calls[w1].req.username}) <= 1
      /\ \/ calls[w1].pair # NoPair /\ calls[w2].pair = NoPair
         \/ calls[w2].pair # NoPair /\ calls[w1].pair = NoPair
      /\ calls[w1].pair = NoPair =>
           calls[w1].err \in RaceConflicts(w1, w2) \cup {ErrUniqueViolation}

\* Both calls passed both existence checks before either INSERT ran.
C27_Race ==
  \E w1, w2 \in Workers :
    /\ BothReturned(w1, w2)
    /\ calls[w1].pair # NoPair
    /\ calls[w2].err = ErrUniqueViolation

====
